---- MODULE Spec2Model ----
(***************************************************************************)
(* Content-pack coverage engine of the conversation chat route:           *)
(* reply parsing into id blocks, coverage computation, the repair loop    *)
(* and the response assembly of POST.                                     *)
(*                                                                         *)
(* A reply is a sequence of lines.  A line is a record                     *)
(*   [k |-> kind, tok |-> text, ids |-> list]                              *)
(* with kind "id" (a line the id-line pattern matches, tok its token),     *)
(* "marker" (a line isCoverageMarkerLine accepts), "blank" (whitespace     *)
(* only) and "text" (any other line, tok its text; ids carries the id      *)
(* list printed by the server coverage block).                             *)
(***************************************************************************)
EXTENDS Integers, Sequences, FiniteSets, TLC

VARIABLES
    pc,                   \* position of POST: firstCall, repairCall, done
    firstCall,            \* outcome of the first callAnthropic
    enabled,              \* controller.enabled
    expectedIds,          \* controller.expectedIds
    batchSize,            \* parsePositiveInt(CONTENT_PACK_BATCH_SIZE) ?? 6
    maxPasses,            \* parsePositiveInt(CONTENT_PACK_MAX_PASSES) ?? 12
    firstReply,           \* firstCall.reply, kept while reply aliases it
    reply,                \* let reply
    blocksById,           \* Map<string, string>
    coverage,             \* let coverage: CoverageCheck
    repairAttempted,
    repairSucceeded,
    repairPasses,
    stalledPasses,
    repairProviderErrors,
    targetIds,            \* targetIds of the repair call in flight
    repairCalls,          \* repair requests sent to the provider
    passLog,              \* per finished repair pass: "stalled" or "productive"
    response,             \* the NextResponse returned
    call,                 \* pure-function harness: the invocation
    ret,                  \* pure-function harness: its result
    store,                \* the sogood_rag row of one conversation id, or NoRow
    inflight,             \* per upsert request in flight: the row it will write
    table,                \* the rows of sogood_rag a DELETE works on
    del,                  \* the DELETE request: its position and what it read
    chat,                 \* the /api/chat request: its position, its calls, its answer
    client                \* sendMessage of the client: its position and what it did

vars == <<pc, firstCall, passLog, enabled, expectedIds, batchSize, maxPasses, firstReply, reply,
          blocksById, coverage, repairAttempted, repairSucceeded,
          repairPasses, stalledPasses, repairProviderErrors, targetIds,
          repairCalls, response, call, ret, store, inflight, table, del, chat, client>>

postVars == <<pc, firstCall, passLog, enabled, expectedIds, batchSize, maxPasses, firstReply,
              reply, blocksById, coverage, repairAttempted, repairSucceeded,
              repairPasses, stalledPasses, repairProviderErrors, targetIds,
              repairCalls, response>>

upsertVars == <<store, inflight>>

deleteVars == <<table, del>>

flowVars == <<chat, client>>

(***************************************************************************)
(* Bounds                                                                  *)
(***************************************************************************)
MaxExpected == 2          \* longest expected-id list
MaxReplyLines == 2        \* longest model reply, in lines, in Spec
MaxStored == 3            \* longest stored history given to mergeHistory
MaxIncoming == 2          \* longest incoming history given to mergeHistory
MaxConsecutive == 3       \* longest list given to mergeConsecutive
MaxMessages == 2          \* longest list given to normalizeMessages and
                          \* to pickMostCompleteMessages
MaxSlashes == 2           \* most slashes at the end of a URL path
MaxSiblingRows == 2       \* most sibling rows given to toSnippets
MaxListingRows == 2       \* most results rows read by the conversation listing
MaxBlocks == 2            \* most content blocks in a provider response
MaxLoaded == 1            \* most results, and most context, snippets loaded
MaxResults == 2           \* most results snippets given to the controller
MaxIdFragments == 2       \* most id-bearing fragments in the results snippets
MaxJsonItems == 2         \* longest array given to parseStoredMessages
MaxBodyMessages == 1      \* longest messages array of an upsert payload
MaxSplitLines == 4        \* longest reply handed to the parser in SplitSpec
MaxEnvHalves == 3         \* env values are 0, 0.5, ..., MaxEnvHalves / 2

DefaultBatchSize == 6
DefaultMaxPasses == 12
StallLimit == 2

NULL == "<null>"
NoCall == [fn |-> "none"]

\* Upsert requests that can be in flight at once, and the state of the
\* conversation store and of the requests while no upsert has been made.
Requests == {"r1", "r2"}
NoRow == [id |-> "none"]
NoRequest == [pc |-> "idle"]

UpsertIdle ==
    /\ store = NoRow
    /\ inflight = [r \in Requests |-> NoRequest]

DeleteIdle ==
    /\ table = {}
    /\ del = NoRequest

FlowIdle ==
    /\ chat = NoRequest
    /\ client = NoRequest

Min(a, b) == IF a < b THEN a ELSE b

(***************************************************************************)
(* Strings                                                                 *)
(***************************************************************************)
\* Tokens an id line can carry.  "A1" is "a1" in another casing, "zz" is
\* never an expected id.
ExpectedPool == {"a1", "A1", "b2"}
Tokens == ExpectedPool \cup {"zz"}

\* String.prototype.toLowerCase on the tokens, schemes and hosts used here.
toLowerCase(t) ==
    IF t = "A1" THEN "a1"
    ELSE IF t = "Content Pack" THEN "content pack"
    ELSE IF t = "FINAL POST" THEN "final post"
    ELSE IF t = "Asset Brief" THEN "asset brief"
    ELSE IF t = "Hook" THEN "hook"
    ELSE IF t = "CTA" THEN "cta"
    ELSE IF t = "Credit Balance Is Too Low" THEN "credit balance is too low"
    ELSE IF t = "HTTP" THEN "http"
    ELSE IF t = "HTTPS" THEN "https"
    ELSE IF t = "Example.com" THEN "example.com"
    ELSE IF t = "T" THEN "t"
    ELSE t

\* A string read character by character is the sequence of its characters.
IsSpace(c) == c \in {" ", "\n"}

RECURSIVE StrTrimStart(_)
StrTrimStart(s) ==
    IF s = <<>> THEN <<>>
    ELSE IF IsSpace(s[1]) THEN StrTrimStart(Tail(s))
    ELSE s

RECURSIVE StrTrimEnd(_)
StrTrimEnd(s) ==
    IF s = <<>> THEN <<>>
    ELSE IF IsSpace(s[Len(s)]) THEN StrTrimEnd(SubSeq(s, 1, Len(s) - 1))
    ELSE s

\* String.prototype.trim on a string kept as its characters.
StrTrim(s) == StrTrimEnd(StrTrimStart(s))

Line(k, tok) == [k |-> k, tok |-> tok, ids |-> <<>>]
IdLine(tok) == Line("id", tok)
BlankLine == Line("blank", "")
MarkerLine == Line("marker", "coverage check")
TextLine == Line("text", "x")

(***************************************************************************)
(* Environment                                                             *)
(***************************************************************************)
\* An environment variable is unset, or holds the decimal h / 2
\* ("0", "0.5", "1", "1.5", ...), kept as its number of halves h.
EnvUnset == -1
NullInt == -1
EnvValues == {EnvUnset} \cup (0 .. MaxEnvHalves)

\* parsePositiveInt: null when unset or n <= 0, else Math.floor(n).
parsePositiveInt(value) ==
    IF value = EnvUnset THEN NullInt
    ELSE IF value <= 0 THEN NullInt
    ELSE value \div 2

\* a ?? b on number | null
OrElse(v, d) == IF v = NullInt THEN d ELSE v

(***************************************************************************)
(* Pure helpers of the coverage engine                                     *)
(***************************************************************************)
RECURSIVE uniqueFrom(_, _, _)
uniqueFrom(items, i, out) ==
    IF i > Len(items) THEN out
    ELSE IF \E j \in 1 .. Len(out) : toLowerCase(out[j]) = toLowerCase(items[i])
         THEN uniqueFrom(items, i + 1, out)
         ELSE uniqueFrom(items, i + 1, Append(out, items[i]))

\* uniquePreserveOrder: case-insensitive dedup, first occurrence kept.
uniquePreserveOrder(items) == uniqueFrom(items, 1, <<>>)

isCoverageMarkerLine(line) == line.k = "marker"

isIdLine(line) == line.k = "id"

RECURSIVE TrimStart(_)
TrimStart(lines) ==
    IF lines = <<>> THEN <<>>
    ELSE IF lines[1].k = "blank" THEN TrimStart(Tail(lines))
    ELSE lines

RECURSIVE TrimEnd(_)
TrimEnd(lines) ==
    IF lines = <<>> THEN <<>>
    ELSE IF lines[Len(lines)].k = "blank"
         THEN TrimEnd(SubSeq(lines, 1, Len(lines) - 1))
         ELSE lines

\* String.prototype.trim on a text kept as its lines.
Trim(lines) == TrimEnd(TrimStart(lines))

\* Characters of one line, and of lines joined by "\n".
LineLength(line) ==
    IF line.k = "id" THEN 4 + Len(line.tok) ELSE Len(line.tok)

RECURSIVE TextLength(_)
TextLength(lines) ==
    IF lines = <<>> THEN 0
    ELSE IF Len(lines) = 1 THEN LineLength(lines[1])
    ELSE LineLength(lines[1]) + 1 + TextLength(Tail(lines))

\* expectedMap.get(key): the last expected id with that lowercase form.
expectedMapGet(expected, key) ==
    LET hits == {i \in 1 .. Len(expected) : toLowerCase(expected[i]) = key}
    IN  IF hits = {} THEN NULL
        ELSE expected[CHOOSE i \in hits : \A j \in hits : j <= i]

\* flush() of splitReplyIntoIdBlocks on the state [currentId, currentLines, blocks].
flush(st) ==
    IF st.currentId = NULL THEN st
    ELSE LET block == Trim(st.currentLines)
         IN  [currentId |-> NULL,
              currentLines |-> <<>>,
              blocks |-> IF block # <<>>
                         THEN Append(st.blocks, [id |-> st.currentId, block |-> block])
                         ELSE st.blocks]

\* The loop body taking an id line with an unexpected token for a plain line.
splitLineUnmatchedIsText(st, line, expected) ==
    IF isIdLine(line) /\ expectedMapGet(expected, toLowerCase(line.tok)) # NULL
    THEN LET f == flush(st)
             canonical == expectedMapGet(expected, toLowerCase(line.tok))
         IN  [currentId |-> canonical,
              currentLines |-> Append(f.currentLines, IdLine(canonical)),
              blocks |-> f.blocks]
    ELSE IF st.currentId # NULL
         THEN [st EXCEPT !.currentLines = Append(@, line)]
         ELSE st

\* One iteration of the for loop of splitReplyIntoIdBlocks (marker excluded).
splitLine(st, line, expected) ==
    IF isIdLine(line)
    THEN LET f == flush(st)
             canonical == expectedMapGet(expected, toLowerCase(line.tok))
         IN  [currentId |-> canonical,
              currentLines |-> IF canonical # NULL
                               THEN Append(f.currentLines, IdLine(canonical))
                               ELSE f.currentLines,
              blocks |-> f.blocks]
    ELSE IF st.currentId # NULL
         THEN [st EXCEPT !.currentLines = Append(@, line)]
         ELSE st

\* The for loop skipping a coverage-marker line instead of breaking.
RECURSIVE splitFromPastMarker(_, _, _, _)
splitFromPastMarker(lines, i, st, expected) ==
    IF i > Len(lines) THEN flush(st).blocks
    ELSE IF isCoverageMarkerLine(lines[i])
         THEN splitFromPastMarker(lines, i + 1, st, expected)
    ELSE splitFromPastMarker(lines, i + 1, splitLine(st, lines[i], expected), expected)

RECURSIVE splitFrom(_, _, _, _)
splitFrom(lines, i, st, expected) ==
    IF i > Len(lines) THEN flush(st).blocks
    ELSE IF isCoverageMarkerLine(lines[i]) THEN flush(st).blocks
    ELSE splitFrom(lines, i + 1, splitLine(st, lines[i], expected), expected)

splitReplyIntoIdBlocks(lines, expected) ==
    splitFrom(lines, 1,
              [currentId |-> NULL, currentLines |-> <<>>, blocks |-> <<>>],
              expected)

RECURSIVE mergeFrom(_, _, _)
mergeFrom(existing, blocks, i) ==
    IF i > Len(blocks) THEN existing
    ELSE LET b == blocks[i]
             has == b.id \in DOMAIN existing
         IN  IF ~has \/ TextLength(b.block) > TextLength(existing[b.id])
             THEN mergeFrom([id \in (DOMAIN existing) \cup {b.id} |->
                                IF id = b.id THEN b.block ELSE existing[id]],
                            blocks, i + 1)
             ELSE mergeFrom(existing, blocks, i + 1)

\* The merge that stores every parsed block, whatever its length.
RECURSIVE mergeFromOverwriting(_, _, _)
mergeFromOverwriting(existing, blocks, i) ==
    IF i > Len(blocks) THEN existing
    ELSE LET b == blocks[i]
         IN  mergeFromOverwriting([id \in (DOMAIN existing) \cup {b.id} |->
                                      IF id = b.id THEN b.block ELSE existing[id]],
                                  blocks, i + 1)

mergeIdBlocksOverwriting(existing, blocks) == mergeFromOverwriting(existing, blocks, 1)

\* mergeIdBlocks: the block map after the merge.
mergeIdBlocks(existing, blocks) == mergeFrom(existing, blocks, 1)

\* Coverage whose outputIds are not filtered by the collected blocks.
computeCoverageUnfiltered(expectedList, blocks) ==
    LET expected == uniquePreserveOrder(expectedList)
        NotInBlocks(id) == id \notin DOMAIN blocks
    IN  [outputIds |-> expected, missingIds |-> SelectSeq(expected, NotInBlocks)]

computeCoverageFromBlocks(expectedList, blocks) ==
    LET expected == uniquePreserveOrder(expectedList)
        InBlocks(id) == id \in DOMAIN blocks
        outputIds == SelectSeq(expected, InBlocks)
        outputSet == {toLowerCase(outputIds[i]) : i \in 1 .. Len(outputIds)}
        NotOutput(id) == toLowerCase(id) \notin outputSet
        missingIds == SelectSeq(expected, NotOutput)
    IN  [outputIds |-> outputIds, missingIds |-> missingIds]

RECURSIVE joinBlocks(_)
joinBlocks(blocks) ==
    IF blocks = <<>> THEN <<>>
    ELSE IF Len(blocks) = 1 THEN blocks[1]
    ELSE blocks[1] \o <<BlankLine>> \o joinBlocks(Tail(blocks))

compileReplyFromBlocks(expected, blocks) ==
    LET body == [i \in 1 .. Len(expected) |->
                    IF expected[i] \in DOMAIN blocks
                    THEN Trim(blocks[expected[i]]) ELSE <<>>]
        NonEmpty(b) == b # <<>>
    IN  joinBlocks(SelectSeq(body, NonEmpty))

buildServerCoverageCheckBlock(inputIds, outputIds, missingIds) ==
    << Line("marker", "[SERVER COVERAGE CHECK]"),
       [k |-> "text", tok |-> "Input IDs:", ids |-> inputIds],
       [k |-> "text", tok |-> "Output IDs:", ids |-> outputIds],
       [k |-> "text", tok |-> "Missing IDs:", ids |-> missingIds] >>

(***************************************************************************)
(* Inputs                                                                  *)
(***************************************************************************)
RECURSIVE SeqsUpTo(_, _)
SeqsUpTo(S, n) ==
    IF n = 0 THEN {<<>>}
    ELSE LET shorter == SeqsUpTo(S, n - 1)
         IN  shorter \cup {Append(s, x) : s \in shorter, x \in S}

\* controller.expectedIds of an enabled controller: uniquePreserveOrder of
\* the extracted ids, never empty.
ExpectedLists ==
    {uniquePreserveOrder(s) : s \in SeqsUpTo(ExpectedPool, MaxExpected)} \ {<<>>}

\* Lines of the texts handed to the parser in SplitSpec.
LineAlphabet ==
    {IdLine(t) : t \in Tokens} \cup {TextLine, BlankLine, MarkerLine}

\* Lines of the provider's replies in Spec: an id line for either expected
\* id, or prose.
ReplyAlphabet == {IdLine("a1"), IdLine("b2"), TextLine}

\* Replies of callAnthropic: trimmed and not empty.
Replies ==
    {r \in SeqsUpTo(ReplyAlphabet, MaxReplyLines) : r # <<>> /\ Trim(r) = r}

ProviderErrors == {"Anthropic request timed out", "credit balance is too low"}

EmptyMap == [id \in {} |-> <<>>]
NoResponse == [status |-> 0, reply |-> <<>>, fallback |-> FALSE]

\* compactSnippet: runs of whitespace become one space, the text is trimmed
\* and, when longer than max, cut to max - 3 characters plus "...".
RECURSIVE collapseSpaces(_, _, _)
collapseSpaces(s, i, out) ==
    IF i > Len(s) THEN out
    ELSE IF ~IsSpace(s[i]) THEN collapseSpaces(s, i + 1, Append(out, s[i]))
    ELSE IF out # <<>> /\ out[Len(out)] = " " THEN collapseSpaces(s, i + 1, out)
    ELSE collapseSpaces(s, i + 1, Append(out, " "))

compactSnippet(text, max) ==
    LET normalized == StrTrim(collapseSpaces(text, 1, <<>>))
    IN  IF Len(normalized) <= max THEN normalized
        ELSE StrTrimEnd(SubSeq(normalized, 1, max - 3)) \o <<".", ".", ".">>

\* A PromptSnippet; a null title is the empty title.
Snippet(title, content) == [title |-> title, content |-> content]

\* A line of the fallback reply built from a text of the request.
DataLine(k, n, text) == [k |-> k, n |-> n, text |-> text]

\* /credit balance is too low/i.test(providerError), on error texts that
\* are the phrase in some letter case or do not hold it.
lowCredits(providerError) ==
    toLowerCase(providerError) = "credit balance is too low"

\* The heading and the compacted content of snippet i.
snippetLines(s, i) ==
    << DataLine("heading", i,
                IF StrTrim(s.title) # <<>> THEN StrTrim(s.title) ELSE <<"Source">>),
       DataLine("snippet", i, compactSnippet(s.content, 320)) >>

RECURSIVE snippetBlockFrom(_, _)
snippetBlockFrom(snippets, i) ==
    IF i > Len(snippets) THEN <<>>
    ELSE snippetLines(snippets[i], i)
         \o (IF i < Len(snippets) THEN <<BlankLine>> ELSE <<>>)
         \o snippetBlockFrom(snippets, i + 1)

buildFallbackReplyCreditsAlways(args) ==
    LET snippets == args.results \o args.contexts
        snippetBlock ==
            IF Len(snippets) > 0 THEN snippetBlockFrom(snippets, 1)
            ELSE << Line("text",
                         "No stored results/context were found for this conversation.") >>
    IN  << Line("text", "I could not reach the configured language model, so this is a fallback response from stored data.") >>
        \o << Line("text", "Anthropic API credits are currently exhausted.") >>
        \o << Line("conversation", args.title) >>
        \o (IF args.companyUrl # "" THEN << Line("company", args.companyUrl) >> ELSE <<>>)
        \o (IF args.latestUserMessage # <<>>
            THEN << DataLine("latest", 0, compactSnippet(args.latestUserMessage, 180)) >>
            ELSE <<>>)
        \o << BlankLine, Line("text", "Relevant data:") >>
        \o snippetBlock
        \o << BlankLine,
              Line("text", "Add Anthropic credits and retry to restore full AI responses.") >>

\* buildFallbackReply: the lines it joins with "\n".  A null companyUrl is
\* "" and a null latestUserMessage is the empty text.
buildFallbackReply(args) ==
    LET snippets == args.results \o args.contexts
        snippetBlock ==
            IF Len(snippets) > 0 THEN snippetBlockFrom(snippets, 1)
            ELSE << Line("text",
                         "No stored results/context were found for this conversation.") >>
    IN  << Line("text", "I could not reach the configured language model, so this is a fallback response from stored data.") >>
        \o (IF lowCredits(args.providerError)
            THEN << Line("text", "Anthropic API credits are currently exhausted.") >>
            ELSE <<>>)
        \o << Line("conversation", args.title) >>
        \o (IF args.companyUrl # "" THEN << Line("company", args.companyUrl) >> ELSE <<>>)
        \o (IF args.latestUserMessage # <<>>
            THEN << DataLine("latest", 0, compactSnippet(args.latestUserMessage, 180)) >>
            ELSE <<>>)
        \o << BlankLine, Line("text", "Relevant data:") >>
        \o snippetBlock
        \o (IF lowCredits(args.providerError)
            THEN << BlankLine,
                    Line("text", "Add Anthropic credits and retry to restore full AI responses.") >>
            ELSE <<>>)

\* The arguments POST gives buildFallbackReply when nothing is stored for
\* the conversation.
FallbackArgs(e) ==
    [providerError |-> e, companyUrl |-> "", title |-> "Conversation",
     latestUserMessage |-> <<>>, results |-> <<>>, contexts |-> <<>>]

(***************************************************************************)
(* POST                                                                    *)
(***************************************************************************)
\* splitReplyIntoIdBlocks(reply, controller.expectedIds), tabulated over the
\* replies and the expected-id lists of a request.
SplitTable ==
    [e \in ExpectedLists \cup {<<>>} |->
        [r \in Replies |-> splitReplyIntoIdBlocks(r, e)]]

InitRequest ==
    /\ pc = "firstCall"
    /\ firstCall = "pending"
    /\ passLog = <<>>
    /\ enabled \in BOOLEAN
    /\ expectedIds \in (IF enabled THEN ExpectedLists ELSE {<<>>})
    /\ batchSize \in {OrElse(parsePositiveInt(e), DefaultBatchSize) : e \in EnvValues}
    /\ maxPasses \in {OrElse(parsePositiveInt(e), DefaultMaxPasses) : e \in EnvValues}
    /\ firstReply = <<>>
    /\ reply = <<>>
    /\ blocksById = EmptyMap
    /\ coverage = [outputIds |-> <<>>, missingIds |-> <<>>]
    /\ repairAttempted = FALSE
    /\ repairSucceeded = FALSE
    /\ repairPasses = 0
    /\ stalledPasses = 0
    /\ repairProviderErrors = <<>>
    /\ targetIds = <<>>
    /\ repairCalls = 0
    /\ response = NoResponse
    /\ ret = NoCall
    /\ UpsertIdle
    /\ DeleteIdle
    /\ FlowIdle

Init == InitRequest /\ call = NoCall

\* The repair block entered whenever the controller is enabled.
entersRepairWhenEnabled(cov) == enabled

\* if (controller.enabled && coverage.missingIds.length > 0) of the repair.
entersRepair(cov) == enabled /\ Len(cov.missingIds) > 0

\* The while loop without its pass budget.
repairLoopConditionNoBudget(cov, passes, stalled) ==
    /\ Len(cov.missingIds) > 0
    /\ stalled < StallLimit

\* The condition of the while loop.
repairLoopCondition(cov, passes, stalled) ==
    /\ Len(cov.missingIds) > 0
    /\ passes < maxPasses
    /\ stalled < StallLimit

\* A slice of one id, whatever the batch size.
sliceTargetIdsOne(missingIds) == SubSeq(missingIds, 1, Min(1, Len(missingIds)))

\* coverage.missingIds.slice(0, batchSize)
sliceTargetIds(missingIds) == SubSeq(missingIds, 1, Min(batchSize, Len(missingIds)))

\* The stall count never reset by a productive pass.
nextStalledPassesNoReset(before, after, stalled) == stalled + 1

\* stalledPasses after a repair reply was merged.
nextStalledPasses(before, after, stalled) ==
    IF after > before THEN 0 ELSE stalled + 1

\* The repair block without the compilation of the collected blocks.
compiledOrReplyNotCompiled(rep, blocks) == rep

\* The reply after the repair block: the compiled blocks when there are any.
compiledOrReply(rep, blocks) ==
    LET compiled == Trim(compileReplyFromBlocks(expectedIds, blocks))
    IN  IF compiled # <<>> THEN compiled ELSE rep

\* The coverage block appended whenever the controller is enabled.
appendsCoverageBlockWhenEnabled(cov) == enabled

\* if (controller.enabled && coverage.missingIds.length > 0) of the append.
appendsCoverageBlock(cov) == enabled /\ Len(cov.missingIds) > 0

withCoverageBlock(rep, cov) ==
    IF appendsCoverageBlock(cov)
    THEN Trim(rep) \o <<BlankLine>>
         \o buildServerCoverageCheckBlock(expectedIds, cov.outputIds, cov.missingIds)
    ELSE rep

\* POST from the head of the while loop to the next await or to the return.
ContinueRepair(rep, blocks, cov, passes, stalled) ==
    IF repairLoopCondition(cov, passes, stalled)
    THEN /\ pc' = "repairCall"
         /\ targetIds' = sliceTargetIds(cov.missingIds)
         /\ repairCalls' = repairCalls + 1
         /\ reply' = rep
         /\ UNCHANGED <<repairSucceeded, response>>
    ELSE LET final == withCoverageBlock(compiledOrReply(rep, blocks), cov)
         IN  /\ pc' = "done"
             /\ repairSucceeded' = (Len(cov.missingIds) = 0)
             /\ reply' = final
             /\ response' = [status |-> 200, reply |-> final, fallback |-> FALSE]
             /\ UNCHANGED <<targetIds, repairCalls>>

\* firstCall.ok: parse the reply, compute coverage, enter the repair block
\* or return.
FirstCallOkStep ==
    /\ pc = "firstCall"
    /\ \E r \in Replies :
        LET blocks == mergeIdBlocks(EmptyMap, SplitTable[expectedIds][r])
            cov == IF enabled
                   THEN computeCoverageFromBlocks(expectedIds, blocks)
                   ELSE [outputIds |-> <<>>, missingIds |-> <<>>]
        IN  /\ firstReply' = (IF entersRepair(cov) THEN <<>> ELSE r)
            /\ blocksById' = blocks
            /\ coverage' = cov
            /\ IF entersRepair(cov)
               THEN /\ repairAttempted' = TRUE
                    /\ ContinueRepair(r, blocks, cov, 0, 0)
               ELSE LET final == withCoverageBlock(r, cov)
                    IN  /\ pc' = "done"
                        /\ reply' = final
                        /\ response' = [status |-> 200, reply |-> final, fallback |-> FALSE]
                        /\ UNCHANGED <<repairAttempted, repairSucceeded, targetIds, repairCalls>>
    /\ firstCall' = "ok"
    /\ UNCHANGED <<passLog, enabled, expectedIds, batchSize, maxPasses, repairPasses,
                   stalledPasses, repairProviderErrors, ret, upsertVars, deleteVars, flowVars>>

FirstCallOk == FirstCallOkStep /\ UNCHANGED call

\* !firstCall.ok: the fallback reply.
FirstCallErrorStep ==
    /\ pc = "firstCall"
    /\ \E e \in ProviderErrors :
        response' = [status |-> 200, reply |-> buildFallbackReply(FallbackArgs(e)), fallback |-> TRUE]
    /\ pc' = "done"
    /\ firstCall' = "providerError"
    /\ UNCHANGED <<passLog, enabled, expectedIds, batchSize, maxPasses, firstReply, reply,
                   blocksById, coverage, repairAttempted, repairSucceeded,
                   repairPasses, stalledPasses, repairProviderErrors, targetIds,
                   repairCalls, ret, upsertVars, deleteVars, flowVars>>

FirstCallError == FirstCallErrorStep /\ UNCHANGED call

\* callAnthropic rethrows a fetch failure that is not an abort; the catch of
\* POST answers 500.
CallThrowsStep ==
    /\ pc \in {"firstCall", "repairCall"}
    /\ pc' = "done"
    /\ response' = [status |-> 500, reply |-> <<>>, fallback |-> FALSE]
    /\ firstCall' = (IF pc = "firstCall" THEN "thrown" ELSE firstCall)
    /\ UNCHANGED <<passLog, enabled, expectedIds, batchSize, maxPasses, firstReply, reply,
                   blocksById, coverage, repairAttempted, repairSucceeded,
                   repairPasses, stalledPasses, repairProviderErrors, targetIds,
                   repairCalls, ret, upsertVars, deleteVars, flowVars>>

CallThrows == CallThrowsStep /\ UNCHANGED call

\* repairedCall.ok: merge the blocks, update the stall count and coverage.
RepairCallOkStep ==
    /\ pc = "repairCall"
    /\ \E r \in Replies :
        LET blocks == mergeIdBlocks(blocksById, SplitTable[expectedIds][r])
            before == Cardinality(DOMAIN blocksById)
            after == Cardinality(DOMAIN blocks)
            stalled == nextStalledPasses(before, after, stalledPasses)
            cov == computeCoverageFromBlocks(expectedIds, blocks)
        IN  /\ repairPasses' = repairPasses + 1
            /\ blocksById' = blocks
            /\ stalledPasses' = stalled
            /\ coverage' = cov
            /\ passLog' = Append(passLog, IF after > before THEN "productive" ELSE "stalled")
            /\ ContinueRepair(r, blocks, cov, repairPasses + 1, stalled)
    /\ UNCHANGED <<firstCall, enabled, expectedIds, batchSize, maxPasses, firstReply,
                   repairAttempted, repairProviderErrors, ret, upsertVars, deleteVars, flowVars>>

RepairCallOk == RepairCallOkStep /\ UNCHANGED call

\* A failed repair call answered with the fallback reply.
RepairCallErrorFallsBack ==
    /\ pc = "repairCall"
    /\ \E e \in ProviderErrors :
        /\ repairProviderErrors' = Append(repairProviderErrors, e)
        /\ response' = [status |-> 200, reply |-> buildFallbackReply(FallbackArgs(e)), fallback |-> TRUE]
    /\ repairPasses' = repairPasses + 1
    /\ stalledPasses' = stalledPasses + 1
    /\ passLog' = Append(passLog, "stalled")
    /\ pc' = "done"
    /\ UNCHANGED <<firstCall, enabled, expectedIds, batchSize, maxPasses, firstReply,
                   reply, blocksById, coverage, repairAttempted, repairSucceeded,
                   targetIds, repairCalls, call, ret, upsertVars, deleteVars, flowVars>>

\* !repairedCall.ok: one stalled pass.
RepairCallErrorStep ==
    /\ pc = "repairCall"
    /\ \E e \in ProviderErrors :
        repairProviderErrors' = Append(repairProviderErrors, e)
    /\ repairPasses' = repairPasses + 1
    /\ stalledPasses' = stalledPasses + 1
    /\ passLog' = Append(passLog, "stalled")
    /\ ContinueRepair(reply, blocksById, coverage, repairPasses + 1, stalledPasses + 1)
    /\ UNCHANGED <<firstCall, enabled, expectedIds, batchSize, maxPasses, firstReply,
                   blocksById, coverage, repairAttempted, ret, upsertVars, deleteVars, flowVars>>

RepairCallError == RepairCallErrorStep /\ UNCHANGED call

Next ==
    \/ FirstCallOk
    \/ FirstCallError
    \/ CallThrows
    \/ RepairCallOk
    \/ RepairCallError

Spec == Init /\ [][Next]_vars

(***************************************************************************)
(* The repair loop with the course of its passes recorded                  *)
(***************************************************************************)
\* The record of one request: m, the number of ids missing after the first
\* completion; covered, whether every repair call so far succeeded with a
\* block for each id it targeted; exact, whether no repair reply so far
\* held a block for a missing id it did not target.
RepairRun(m, covered, exact) ==
    [fn |-> "repairLoop", m |-> m, covered |-> covered, exact |-> exact]

LoopInit == InitRequest /\ call = RepairRun(0, TRUE, TRUE)

LoopFirstCallOk ==
    /\ call.fn = "repairLoop"
    /\ FirstCallOkStep
    /\ call' = [call EXCEPT !.m = Len(coverage'.missingIds)]

LoopFirstCallError ==
    /\ call.fn = "repairLoop"
    /\ FirstCallErrorStep
    /\ UNCHANGED call

LoopCallThrows ==
    /\ call.fn = "repairLoop"
    /\ CallThrowsStep
    /\ call' = [call EXCEPT !.covered = @ /\ pc = "firstCall"]

\* The ids targeted by the pass are those of targetIds before the step; the
\* reply held a block for an id missing before iff the id has one after.
LoopRepairCallOk ==
    /\ call.fn = "repairLoop"
    /\ RepairCallOkStep
    /\ LET targeted == {targetIds[i] : i \in 1 .. Len(targetIds)}
           missing == {coverage.missingIds[i] : i \in 1 .. Len(coverage.missingIds)}
           delivered == missing \cap DOMAIN blocksById'
       IN  call' = [call EXCEPT !.covered = @ /\ targeted \subseteq delivered,
                                !.exact = @ /\ delivered \subseteq targeted]

LoopRepairCallError ==
    /\ call.fn = "repairLoop"
    /\ RepairCallErrorStep
    /\ call' = [call EXCEPT !.covered = FALSE]

LoopNext ==
    \/ LoopFirstCallOk
    \/ LoopFirstCallError
    \/ LoopCallThrows
    \/ LoopRepairCallOk
    \/ LoopRepairCallError

LoopSpec == LoopInit /\ [][LoopNext]_vars

(***************************************************************************)
(* splitReplyIntoIdBlocks applied to bounded texts                         *)
(***************************************************************************)
SplitTexts ==
    {r \in SeqsUpTo(LineAlphabet, MaxSplitLines) : r # <<>> /\ Trim(r) = r}

PostIdle ==
    /\ pc = "idle"
    /\ firstCall = "pending"
    /\ passLog = <<>>
    /\ enabled = FALSE
    /\ expectedIds = <<>>
    /\ batchSize = DefaultBatchSize
    /\ maxPasses = DefaultMaxPasses
    /\ firstReply = <<>>
    /\ reply = <<>>
    /\ blocksById = EmptyMap
    /\ coverage = [outputIds |-> <<>>, missingIds |-> <<>>]
    /\ repairAttempted = FALSE
    /\ repairSucceeded = FALSE
    /\ repairPasses = 0
    /\ stalledPasses = 0
    /\ repairProviderErrors = <<>>
    /\ targetIds = <<>>
    /\ repairCalls = 0
    /\ response = NoResponse
    /\ UpsertIdle

SplitInit ==
    /\ PostIdle
    /\ DeleteIdle
    /\ FlowIdle
    /\ call \in {[fn |-> "splitReplyIntoIdBlocks", reply |-> r, expectedIds |-> e] :
                    r \in SplitTexts, e \in ExpectedLists}
    /\ ret = NoCall

SplitApply ==
    /\ call.fn = "splitReplyIntoIdBlocks"
    /\ ret = NoCall
    /\ ret' = [fn |-> call.fn,
               blocks |-> splitReplyIntoIdBlocks(call.reply, call.expectedIds)]
    /\ UNCHANGED <<postVars, upsertVars, call, deleteVars, flowVars>>

SplitNext == SplitApply

SplitSpec == SplitInit /\ [][SplitNext]_vars

(***************************************************************************)
(* History merge.  A string is the sequence of its characters; a turn is   *)
(* a record [role |-> r, content |-> string].                              *)
(***************************************************************************)
Turn(r, c) == [role |-> r, content |-> c]

\* The loop body of mergeConsecutive keeping turns of empty content.
mergeConsecutiveTurnKeepsEmpty(out, m) ==
    LET content == StrTrim(m.content)
    IN  IF out # <<>> /\ out[Len(out)].role = m.role
        THEN [out EXCEPT ![Len(out)].content = @ \o <<"\n", "\n">> \o content]
        ELSE Append(out, Turn(m.role, content))

\* One iteration of the for loop of mergeConsecutive.
mergeConsecutiveTurn(out, m) ==
    LET content == StrTrim(m.content)
    IN  IF content = <<>> THEN out
        ELSE IF out # <<>> /\ out[Len(out)].role = m.role
        THEN [out EXCEPT ![Len(out)].content = @ \o <<"\n", "\n">> \o content]
        ELSE Append(out, Turn(m.role, content))

RECURSIVE mergeConsecutiveFrom(_, _, _)
mergeConsecutiveFrom(messages, i, out) ==
    IF i > Len(messages) THEN out
    ELSE mergeConsecutiveFrom(messages, i + 1, mergeConsecutiveTurn(out, messages[i]))

mergeConsecutive(messages) == mergeConsecutiveFrom(messages, 1, <<>>)

\* One iteration of the for loop of normalizeChatTurns.
normalizeChatTurn(out, m) ==
    LET role == IF m.role = "assistant" THEN "assistant"
                ELSE IF m.role \in {"user", "system"} THEN "user"
                ELSE NULL
        content == StrTrim(m.content)
    IN  IF role = NULL THEN out
        ELSE IF content = <<>> THEN out
        ELSE Append(out, Turn(role, content))

RECURSIVE normalizeChatTurnsFrom(_, _, _)
normalizeChatTurnsFrom(messages, i, out) ==
    IF i > Len(messages) THEN out
    ELSE normalizeChatTurnsFrom(messages, i + 1, normalizeChatTurn(out, messages[i]))

normalizeChatTurns(messages) == normalizeChatTurnsFrom(messages, 1, <<>>)

\* sameTurn(a, b) of two turns; the caller below tests for the undefined
\* last entry of an empty list, for which sameTurn returns false.
sameTurn(a, b) ==
    a.role = b.role /\ StrTrim(a.content) = StrTrim(b.content)

\* The loop body of mergeHistory pushing every incoming turn.
appendIfNewAlways(out, m) == Append(out, m)

\* One iteration of the for loop of mergeHistory.
appendIfNew(out, m) ==
    IF out # <<>> /\ sameTurn(out[Len(out)], m) THEN out ELSE Append(out, m)

RECURSIVE appendMissingFrom(_, _, _)
appendMissingFrom(incoming, i, out) ==
    IF i > Len(incoming) THEN out
    ELSE appendMissingFrom(incoming, i + 1, appendIfNew(out, incoming[i]))

\* mergeHistory trusting incoming only when it is strictly longer.
mergeHistoryStrictlyLonger(stored, incoming) ==
    IF Len(stored) = 0 THEN incoming
    ELSE IF Len(incoming) = 0 THEN stored
    ELSE IF Len(incoming) > Len(stored) THEN incoming
    ELSE appendMissingFrom(incoming, 1, stored)

mergeHistory(stored, incoming) ==
    IF Len(stored) = 0 THEN incoming
    ELSE IF Len(incoming) = 0 THEN stored
    ELSE IF Len(incoming) >= Len(stored) THEN incoming
    ELSE appendMissingFrom(incoming, 1, stored)

\* Messages of a request body or of a stored payload: a user turn, an
\* assistant turn, a system message with padded content, a message of
\* whitespace-only content, a message of another role, a second assistant turn.
RawMessages ==
    {Turn("user", <<"a">>), Turn("assistant", <<"b">>),
     Turn("system", <<" ", "a">>), Turn("user", <<" ">>),
     Turn("tool", <<"a">>), Turn("assistant", <<"a", "\n">>)}

\* storedTurns and incomingTurns of POST: both come out of normalizeChatTurns.
StoredTurnLists == {normalizeChatTurns(s) : s \in SeqsUpTo(RawMessages, MaxStored)}

IncomingTurnLists == {normalizeChatTurns(s) : s \in SeqsUpTo(RawMessages, MaxIncoming)}

MergeInit ==
    /\ PostIdle
    /\ DeleteIdle
    /\ FlowIdle
    /\ call \in {[fn |-> "mergeHistory", stored |-> s, incoming |-> i] :
                    s \in StoredTurnLists, i \in IncomingTurnLists}
    /\ ret = NoCall

MergeApply ==
    /\ call.fn = "mergeHistory"
    /\ ret = NoCall
    /\ ret' = [fn |-> call.fn, merged |-> mergeHistory(call.stored, call.incoming)]
    /\ UNCHANGED <<postVars, upsertVars, call, deleteVars, flowVars>>

MergeNext == MergeApply

MergeSpec == MergeInit /\ [][MergeNext]_vars

\* Turns of the parameter type of mergeConsecutive: the role is user or
\* assistant, the content any string.
ConsecutiveTurns ==
    {Turn(r, c) : r \in {"user", "assistant"},
                  c \in {<<>>, <<" ">>, <<"a">>, <<" ", "b", "\n">>}}

ConsecutiveInit ==
    /\ PostIdle
    /\ DeleteIdle
    /\ FlowIdle
    /\ call \in {[fn |-> "mergeConsecutive", messages |-> m] :
                    m \in SeqsUpTo(ConsecutiveTurns, MaxConsecutive)}
    /\ ret = NoCall

ConsecutiveApply ==
    /\ call.fn = "mergeConsecutive"
    /\ ret = NoCall
    /\ ret' = [fn |-> call.fn, turns |-> mergeConsecutive(call.messages)]
    /\ UNCHANGED <<postVars, upsertVars, call, deleteVars, flowVars>>

ConsecutiveNext == ConsecutiveApply

ConsecutiveSpec == ConsecutiveInit /\ [][ConsecutiveNext]_vars

(***************************************************************************)
(* Conversation upsert route.  A message is a record                       *)
(*   [role |-> r, content |-> string, timestamp |-> t];                    *)
(* ids, title, company, type and context of a row are left out.  Instants  *)
(* are counted in half milliseconds, so that a payload can carry a         *)
(* createdAt that is not a whole number of milliseconds.                   *)
(***************************************************************************)
\* A payload field that is missing or not a finite number.
Absent == -1

Message(r, c, t) == [role |-> r, content |-> c, timestamp |-> t]

\* normalizeCreatedAt(value), now being the value of Date.now().
normalizeCreatedAt(value, now) == IF value # Absent THEN value ELSE now

\* new Date(t).toISOString(): the instant cut to whole milliseconds.
toISOString(t) == t - (t % 2)

\* new Date(iso).getTime() of a stored created_at.
getTime(iso) == iso

\* Values as JSON.parse returns them.  An array is JsonArray(items); a
\* string holding JSON text is JsonText(value it parses to); Malformed is a
\* string that is no JSON text; the other values are named by their type.
\* An element of an array is a message object with a string content
\* (a Message), a message object whose content is no string
\* (a MessageOf, content named by its kind), or a value without role.
JsonArray(items) == [t |-> "array", items |-> items]
JsonText(value) == [t |-> "text", parsed |-> value]
JsonNull == [t |-> "null"]
JsonObject == [t |-> "object"]
Undefined == [t |-> "undefined"]
Malformed == [t |-> "text", parsed |-> [t |-> "malformed"]]

MessageOf(r, kind, t) == [role |-> r, contentKind |-> kind, timestamp |-> t]

\* String(content ?? "") of a content that is no string: null and undefined
\* give "", a number its digits, a plain object "[object Object]".
StringOf(kind) ==
    IF kind = "null" THEN <<>>
    ELSE IF kind = "number" THEN <<"7">>
    ELSE <<"[object Object]">>

\* String(content) raises a TypeError: the content is an object whose
\* toString is not callable, such as {"toString": null}.
stringThrows(m) ==
    /\ "role" \in DOMAIN m
    /\ m.role \in {"system", "user", "assistant"}
    /\ "content" \notin DOMAIN m
    /\ m.contentKind = "unprintable"

\* One iteration of the for loop of sanitizeMessages that does not raise.
sanitizeMessage(out, m, createdAt) ==
    IF "role" \notin DOMAIN m THEN out
    ELSE IF m.role \notin {"system", "user", "assistant"} THEN out
    ELSE Append(out, Message(m.role,
                             IF "content" \in DOMAIN m THEN m.content
                             ELSE StringOf(m.contentKind),
                             IF m.timestamp # Absent THEN m.timestamp ELSE createdAt))

RECURSIVE sanitizeMessagesFrom(_, _, _, _)
sanitizeMessagesFrom(value, i, out, createdAt) ==
    IF i > Len(value) THEN out
    ELSE sanitizeMessagesFrom(value, i + 1, sanitizeMessage(out, value[i], createdAt),
                              createdAt)

sanitizeMessages(value, createdAt) ==
    IF value.t # "array" THEN <<>>
    ELSE sanitizeMessagesFrom(value.items, 1, <<>>, createdAt)

\* sanitizeMessages raises on the value.
sanitizeThrows(value) ==
    /\ value.t = "array"
    /\ \E i \in 1 .. Len(value.items) : stringThrows(value.items[i])

\* parseStoredMessages: an array is sanitized, a string is parsed and
\* sanitized when it holds an array (the empty list when either step
\* raises), anything else gives the empty list.
parseStoredMessages(value, now) ==
    IF value.t = "array" THEN sanitizeMessages(value, now)
    ELSE IF value.t = "text" /\ value.parsed.t = "array"
              /\ ~sanitizeThrows(value.parsed)
         THEN sanitizeMessages(value.parsed, now)
    ELSE <<>>

\* parseStoredMessages raises on the value: the string branch catches what
\* JSON.parse and sanitizeMessages raise, the array branch catches nothing.
parseStoredThrows(value) == sanitizeThrows(value)

\* existing?.messages: the messages column as the store returns it.
messagesOf(row) == IF row = NoRow THEN Undefined ELSE JsonArray(row.messages)

\* pickMostCompleteMessages preferring existing on equal last timestamps.
pickMostCompleteMessagesIncoming(existing, incoming) == incoming

pickMostCompleteMessagesStrictlyNewer(existing, incoming) ==
    IF Len(existing) = 0 THEN incoming
    ELSE IF Len(incoming) = 0 THEN existing
    ELSE IF Len(incoming) > Len(existing) THEN incoming
    ELSE IF Len(existing) > Len(incoming) THEN existing
    ELSE IF incoming[Len(incoming)].timestamp > existing[Len(existing)].timestamp
         THEN incoming
         ELSE existing

pickMostCompleteMessages(existing, incoming) ==
    IF Len(existing) = 0 THEN incoming
    ELSE IF Len(incoming) = 0 THEN existing
    ELSE IF Len(incoming) > Len(existing) THEN incoming
    ELSE IF Len(existing) > Len(incoming) THEN existing
    ELSE IF incoming[Len(incoming)].timestamp >= existing[Len(existing)].timestamp
         THEN incoming
         ELSE existing

\* normalizeMessages; an undefined socialEntry is the empty string, which
\* `if (!social)` treats alike.
normalizeMessages(createdAt, socialEntry, messages) ==
    LET social == StrTrim(socialEntry)
        hasSystemSocial ==
            \E i \in 1 .. Len(messages) :
                messages[i].role = "system" /\ StrTrim(messages[i].content) = social
    IN  IF social = <<>> THEN messages
        ELSE IF hasSystemSocial THEN messages
        ELSE IF /\ messages # <<>>
                /\ StrTrim(messages[1].content) = social
                /\ messages[1].role # "assistant"
        THEN [messages EXCEPT ![1].role = "system"]
        ELSE <<Message("system", social, createdAt)>> \o messages

\* Messages of the argument type Message[].
Messages ==
    {Message("system", <<"s">>, 2), Message("user", <<" ", "s">>, 2),
     Message("user", <<"x">>, 4), Message("assistant", <<"s">>, 4)}

SocialEntries == {<<>>, <<" ">>, <<"s">>, <<"s", " ">>}

NormalizeInit ==
    /\ PostIdle
    /\ DeleteIdle
    /\ FlowIdle
    /\ call \in {[fn |-> "normalizeMessages", createdAt |-> 6, socialEntry |-> s,
                  messages |-> m] :
                    s \in SocialEntries, m \in SeqsUpTo(Messages, MaxMessages)}
    /\ ret = NoCall

NormalizeApply ==
    /\ call.fn = "normalizeMessages"
    /\ ret = NoCall
    /\ ret' = [fn |-> call.fn,
               messages |-> normalizeMessages(call.createdAt, call.socialEntry,
                                              call.messages)]
    /\ UNCHANGED <<postVars, upsertVars, call, deleteVars, flowVars>>

NormalizeNext == NormalizeApply

NormalizeSpec == NormalizeInit /\ [][NormalizeNext]_vars

PickInit ==
    /\ PostIdle
    /\ DeleteIdle
    /\ FlowIdle
    /\ call \in {[fn |-> "pickMostCompleteMessages", existing |-> e, incoming |-> i] :
                    e \in SeqsUpTo(Messages, MaxMessages),
                    i \in SeqsUpTo(Messages, MaxMessages)}
    /\ ret = NoCall

PickApply ==
    /\ call.fn = "pickMostCompleteMessages"
    /\ ret = NoCall
    /\ ret' = [fn |-> call.fn,
               messages |-> pickMostCompleteMessages(call.existing, call.incoming)]
    /\ UNCHANGED <<postVars, upsertVars, call, deleteVars, flowVars>>

PickNext == PickApply

PickSpec == PickInit /\ [][PickNext]_vars

\* Content of the first message of the given role, "" when there is none
\* (null and "" are both skipped by ||).
RECURSIVE firstContent(_, _)
firstContent(messages, role) ==
    IF messages = <<>> THEN <<>>
    ELSE IF Head(messages).role = role THEN Head(messages).content
    ELSE firstContent(Tail(messages), role)

\* a || b on strings
OrString(a, b) == IF a # <<>> THEN a ELSE b

\* The row POST builds between its read and its write, writing the incoming
\* messages whatever the row read holds.
upsertRowIncomingWins(body, existing, now) ==
    LET createdAt == normalizeCreatedAt(body.createdAt, now)
        normalizedIncomingMessages ==
            sanitizeMessages(JsonArray(body.messages), createdAt)
        existingCreatedAt ==
            IF existing # NoRow THEN getTime(existing.created_at) ELSE createdAt
        mergedMessages == normalizedIncomingMessages
        existingSocial == IF existing # NoRow THEN StrTrim(existing.social_entry) ELSE <<>>
        socialEntry ==
            OrString(StrTrim(body.socialEntry),
                OrString(existingSocial,
                    OrString(firstContent(mergedMessages, "system"),
                             firstContent(mergedMessages, "user"))))
    IN  [id |-> "c1",
         social_entry |-> socialEntry,
         messages |-> normalizeMessages(existingCreatedAt, socialEntry, mergedMessages),
         created_at |-> toISOString(existingCreatedAt)]

\* The row POST builds between its read and its write: body is the payload,
\* existing the row read (or NoRow), now the value of Date.now().
upsertRow(body, existing, now) ==
    LET createdAt == normalizeCreatedAt(body.createdAt, now)
        normalizedIncomingMessages ==
            sanitizeMessages(JsonArray(body.messages), createdAt)
        existingCreatedAt ==
            IF existing # NoRow THEN getTime(existing.created_at) ELSE createdAt
        normalizedExistingMessages ==
            sanitizeMessages(JsonArray(parseStoredMessages(messagesOf(existing), now)),
                             existingCreatedAt)
        mergedMessages ==
            pickMostCompleteMessages(normalizedExistingMessages, normalizedIncomingMessages)
        existingSocial == IF existing # NoRow THEN StrTrim(existing.social_entry) ELSE <<>>
        socialEntry ==
            OrString(StrTrim(body.socialEntry),
                OrString(existingSocial,
                    OrString(firstContent(mergedMessages, "system"),
                             firstContent(mergedMessages, "user"))))
    IN  [id |-> "c1",
         social_entry |-> socialEntry,
         messages |-> normalizeMessages(existingCreatedAt, socialEntry, mergedMessages),
         created_at |-> toISOString(existingCreatedAt)]

\* Entries of a payload's messages array: a user message without timestamp
\* and an assistant message.
BodyMessages ==
    {Message("user", <<"x">>, Absent), Message("assistant", <<"y">>, 5)}

\* Payloads of one conversation id.  createdAt is missing or 1.5 ms.
Bodies ==
    {[createdAt |-> c, socialEntry |-> s, messages |-> m] :
        c \in {Absent, 3}, s \in {<<>>, <<"s", " ">>},
        m \in SeqsUpTo(BodyMessages, MaxBodyMessages)}

\* Values of Date.now().
ClockValues == {4}

UpsertInit ==
    /\ PostIdle
    /\ DeleteIdle
    /\ FlowIdle
    /\ call = NoCall
    /\ ret = NoCall

\* POST up to the answer of its read: the payload is parsed, the row is
\* read and the row to write is built; the write is then in flight.
\* shorter and alone record whether the payload's messages array is shorter
\* than the stored one and whether no other request has been in flight since
\* this one read.
UpsertRead(r, body, now) ==
    /\ inflight[r] = NoRequest
    /\ inflight' =
          [q \in Requests |->
              IF q = r
              THEN [pc |-> "write", row |-> upsertRow(body, store, now),
                    shorter |-> store # NoRow /\ Len(body.messages) < Len(store.messages),
                    alone |-> \A o \in Requests \ {r} : inflight[o] = NoRequest]
              ELSE IF inflight[q] = NoRequest THEN NoRequest
              ELSE [inflight[q] EXCEPT !.alone = FALSE]]
    /\ UNCHANGED <<postVars, call, ret, store, deleteVars, flowVars>>

\* The upsert on conflict id with merge-duplicates stores the row built.
UpsertWrite(r) ==
    /\ inflight[r] # NoRequest
    /\ store' = inflight[r].row
    /\ inflight' = [inflight EXCEPT ![r] = NoRequest]
    /\ UNCHANGED <<postVars, call, ret, deleteVars, flowVars>>

\* The write fails or returns no row: 500 or 502, nothing is stored.
UpsertFails(r) ==
    /\ inflight[r] # NoRequest
    /\ inflight' = [inflight EXCEPT ![r] = NoRequest]
    /\ UNCHANGED <<postVars, call, ret, store, deleteVars, flowVars>>

UpsertNext ==
    \E r \in Requests :
        \/ \E body \in Bodies, now \in ClockValues : UpsertRead(r, body, now)
        \/ UpsertWrite(r)
        \/ UpsertFails(r)

UpsertSpec == UpsertInit /\ [][UpsertNext]_vars

(***************************************************************************)
(* Company URLs.  A company value is null, a text that is no http(s) URL,  *)
(* or an http(s) URL kept as the parts of its text:                        *)
(*   [kind |-> "url", pad, scheme, host, port, path, query]                *)
(* pad is white space around the text, port "" when the text has none,     *)
(* query the "?..." and "#..." part; a path is [seg, slashes]: "/" seg     *)
(* (nothing when seg is "") followed by that many slashes.  Two values are *)
(* the same text exactly when they are the same record.                    *)
(***************************************************************************)
NoCompany == [kind |-> "null"]
PlainText == [kind |-> "text", text |-> "acme"]

Path(seg, slashes) == [seg |-> seg, slashes |-> slashes]
RootPath == Path("", 1)

Url(scheme, host, port, path) ==
    [kind |-> "url", pad |-> "", scheme |-> scheme, host |-> host, port |-> port,
     path |-> path, query |-> ""]

DefaultPort(scheme) == IF scheme = "https" THEN "443" ELSE "80"

\* String.prototype.trim on a company value.
trimCompany(value) == IF value.kind = "url" THEN [value EXCEPT !.pad = ""] ELSE value

\* A URL parser leaving the letter case of the host as written.
parseUrlKeepsHostCase(raw) ==
    LET scheme == toLowerCase(raw.scheme)
    IN  [raw EXCEPT !.scheme = scheme,
                    !.port = IF raw.port = DefaultPort(scheme) THEN "" ELSE raw.port,
                    !.path = IF raw.path = Path("", 0) THEN RootPath ELSE raw.path]

\* new URL(raw).toString(): the parser lowercases scheme and host, drops the
\* default port of the scheme and gives an empty path the path "/".
parseUrl(raw) ==
    LET scheme == toLowerCase(raw.scheme)
    IN  [raw EXCEPT !.scheme = scheme,
                    !.host = toLowerCase(raw.host),
                    !.port = IF raw.port = DefaultPort(scheme) THEN "" ELSE raw.port,
                    !.path = IF raw.path = Path("", 0) THEN RootPath ELSE raw.path]

\* The pathname setter: an empty pathname becomes "/".
setPathname(path) == IF path = Path("", 0) THEN RootPath ELSE path

\* pathname.replace(/\/$/, ""): one slash removed from the end.
stripTrailingSlashesOnce(path) == [path EXCEPT !.slashes = IF @ > 0 THEN @ - 1 ELSE 0]

\* pathname.replace(/\/+$/, "")
stripTrailingSlashes(path) == [path EXCEPT !.slashes = 0]

canonicalizeCompanyUrl(value) ==
    IF value.kind # "url" THEN NoCompany
    ELSE LET u == parseUrl(trimCompany(value))
             port == IF \/ (u.scheme = "https" /\ u.port = "443")
                        \/ (u.scheme = "http" /\ u.port = "80")
                     THEN "" ELSE u.port
             path == IF u.path # RootPath
                     THEN setPathname(stripTrailingSlashes(u.path))
                     ELSE u.path
         IN  [u EXCEPT !.query = "", !.port = port, !.path = path]

\* toggleTrailingSlash; new URL throws on a text that is no URL.
toggleTrailingSlash(url) ==
    IF url.kind # "url" THEN url
    ELSE LET u == parseUrl(url)
         IN  IF u.path = RootPath THEN u
             ELSE IF u.path.slashes > 0
             THEN [u EXCEPT !.path = setPathname(stripTrailingSlashes(u.path))]
             ELSE [u EXCEPT !.path = [u.path EXCEPT !.slashes = 1]]

\* The for loop of companyUrlVariants: first occurrences, in order.
RECURSIVE distinctFrom(_, _, _)
distinctFrom(variants, i, out) ==
    IF i > Len(variants) THEN out
    ELSE IF \E j \in 1 .. Len(out) : out[j] = trimCompany(variants[i])
         THEN distinctFrom(variants, i + 1, out)
         ELSE distinctFrom(variants, i + 1, Append(out, trimCompany(variants[i])))

\* a ?? b on company values
OrCompany(a, b) == IF a # NoCompany THEN a ELSE b

companyUrlVariants(value) ==
    IF value = NoCompany THEN <<>>
    ELSE LET raw == trimCompany(value)
             canon == OrCompany(canonicalizeCompanyUrl(raw), raw)
         IN  distinctFrom(<<raw, canon, toggleTrailingSlash(raw),
                            toggleTrailingSlash(canon)>>, 1, <<>>)

\* The company values a store query built from the variants matches: the
\* or-filter of buildCompanyOrFilter over all variants when there are two
\* or more, else company = eq.<eqCompany>.
companyFilter(variants, eqCompany) ==
    IF Len(variants) >= 2 THEN {variants[i] : i \in 1 .. Len(variants)}
    ELSE {eqCompany}

Schemes == {"http", "HTTP", "https", "HTTPS"}
Hosts == {"example.com", "Example.com"}
Ports == {"", "80", "443", "8080"}
Paths == {Path(seg, n) : seg \in {"", "a"}, n \in 0 .. MaxSlashes}

CompanyUrls ==
    {[kind |-> "url", pad |-> pad, scheme |-> s, host |-> h, port |-> p,
      path |-> path, query |-> q] :
        pad \in {"", " "}, s \in Schemes, h \in Hosts, p \in Ports,
        path \in Paths, q \in {"", "?utm=1"}}

CompanyValues == CompanyUrls \cup {PlainText, NoCompany}

CanonInit ==
    /\ PostIdle
    /\ DeleteIdle
    /\ FlowIdle
    /\ call \in {[fn |-> "canonicalizeCompanyUrl", value |-> v] : v \in CompanyValues}
    /\ ret = NoCall

\* canonicalizeCompanyUrl applied to the value and then to its own result.
CanonApply ==
    /\ call.fn = "canonicalizeCompanyUrl"
    /\ ret = NoCall
    /\ LET canon == canonicalizeCompanyUrl(call.value)
       IN  ret' = [fn |-> call.fn, canon |-> canon,
                   again |-> canonicalizeCompanyUrl(canon)]
    /\ UNCHANGED <<postVars, upsertVars, call, deleteVars, flowVars>>

CanonNext == CanonApply

CanonSpec == CanonInit /\ [][CanonNext]_vars

(***************************************************************************)
(* Sibling resolution of the conversation chat route.  A row of sogood_rag *)
(* is [id, type, company, social_entry, context, title, created_at];       *)
(* company and social_entry are company values, context is NULL or a text. *)
(***************************************************************************)
Row(id, type, company, social, context, title, created) ==
    [id |-> id, type |-> type, company |-> company, social_entry |-> social,
     context |-> context, title |-> title, created_at |-> created]

\* order=created_at.asc over a set of rows of distinct creation times.
RECURSIVE orderByCreatedAt(_)
orderByCreatedAt(rows) ==
    IF rows = {} THEN <<>>
    ELSE LET first == CHOOSE r \in rows : \A o \in rows : r.created_at <= o.created_at
         IN  <<first>> \o orderByCreatedAt(rows \ {first})

\* (r.context ?? r.social_entry ?? "").trim().length > 0
hasContent(r) ==
    IF r.context # NULL THEN r.context # "" ELSE r.social_entry # NoCompany

\* toSnippets, kept as the ids of the snippets.
RECURSIVE toSnippets(_)
toSnippets(rows) ==
    IF rows = <<>> THEN <<>>
    ELSE IF hasContent(Head(rows)) THEN <<Head(rows).id>> \o toSnippets(Tail(rows))
    ELSE toSnippets(Tail(rows))

\* The rows a company query of the given type returns.
selectByCompany(rows, type, filter) ==
    orderByCreatedAt({r \in rows : r.type = type /\ r.company \in filter})

selectByTitle(rows, type, title) ==
    orderByCreatedAt({r \in rows : r.type = type /\ r.title = title})

\* POST from the parent query to the snippets: 404 without a results row of
\* the conversation id, else the ids of the results and context snippets.
resolveSnippets(rows, conversationId) ==
    LET parents == {r \in rows : r.id = conversationId /\ r.type = "results"}
    IN  IF parents = {} THEN [status |-> 404, results |-> <<>>, contexts |-> <<>>]
        ELSE
        LET p == CHOOSE r \in parents : TRUE
            companyUrl == p.company
            companyCanon == OrCompany(canonicalizeCompanyUrl(companyUrl),
                                      canonicalizeCompanyUrl(p.social_entry))
            companyFilterVariants == companyUrlVariants(OrCompany(companyUrl, companyCanon))
            eqCompany == IF Len(companyFilterVariants) = 1 THEN companyFilterVariants[1]
                         ELSE OrCompany(companyUrl, companyCanon)
            filter == companyFilter(companyFilterVariants, eqCompany)
        IN  IF companyUrl # NoCompany \/ companyCanon # NoCompany
            THEN [status |-> 0,
                  results |-> toSnippets(selectByCompany(rows, "results", filter)),
                  contexts |-> toSnippets(selectByCompany(rows, "context", filter))]
            ELSE IF p.title # ""
            THEN [status |-> 0,
                  results |-> toSnippets(selectByTitle(rows, "results", p.title)),
                  contexts |-> toSnippets(selectByTitle(rows, "context", p.title))]
            ELSE [status |-> 0, results |-> <<>>, contexts |-> <<>>]

\* Company texts of the rows: none, a plain text, and one site written
\* without path, with the root path, and with a path with and without a
\* trailing slash.
RowCompanies ==
    {NoCompany, PlainText} \cup
    {Url("https", "example.com", "", p) :
        p \in {Path("", 0), RootPath, Path("a", 0), Path("a", 1)}}

RowSocialEntries == {NoCompany, PlainText, Url("https", "example.com", "", RootPath)}

\* Tables of two rows, the conversation "c1" and another row "c2", created
\* in either order.
Tables ==
    {{Row("c1", t1, c1, s1, x1, "t", k), Row("c2", t2, c2, s2, x2, title2, 3 - k)} :
        t1 \in {"results", "context"}, t2 \in {"results", "context"},
        c1 \in RowCompanies, c2 \in RowCompanies,
        s1 \in RowSocialEntries, s2 \in {NoCompany, PlainText},
        x1 \in {NULL, "ctx"}, x2 \in {NULL, "ctx"},
        title2 \in {"t", "u"}, k \in {1, 2}}

ResolveInit ==
    /\ PostIdle
    /\ DeleteIdle
    /\ FlowIdle
    /\ call \in {[fn |-> "resolveSnippets", conversationId |-> "c1", table |-> t] :
                    t \in Tables}
    /\ ret = NoCall

ResolveApply ==
    /\ call.fn = "resolveSnippets"
    /\ ret = NoCall
    /\ ret' = [fn |-> call.fn,
               snippets |-> resolveSnippets(call.table, call.conversationId)]
    /\ UNCHANGED <<postVars, upsertVars, call, deleteVars, flowVars>>

ResolveNext == ResolveApply

ResolveSpec == ResolveInit /\ [][ResolveNext]_vars

(***************************************************************************)
(* DELETE of a conversation.  del is the request: its position (read,      *)
(* contexts, row, done, failed), the id, and the company and title read.   *)
(***************************************************************************)
\* The rows the context delete removes whatever their type.
contextRowsAnyType(rows, filter) == {r \in rows : r.company \in filter}

\* The rows matched by type=eq.context and the company filter.
contextRows(rows, filter) == {r \in rows : r.type = "context" /\ r.company \in filter}

\* Rows of the table next to the conversation "c1": two rows of either
\* type, of a site written without path, with the root path or with a path,
\* or without company.
DeleteCompanies ==
    {NoCompany} \cup
    {Url("https", "example.com", "", p) : p \in {Path("", 0), RootPath, Path("a", 1)}}

DeleteRows(id) ==
    {Row(id, t, c, NoCompany, NULL, title, 1) :
        t \in {"results", "context"}, c \in DeleteCompanies, title \in {"", "t"}}

DeleteTables ==
    {({p} \cup {r2, r3}) \ {NoRow} :
        p \in DeleteRows("c1") \cup {NoRow}, r2 \in DeleteRows("c2"),
        r3 \in DeleteRows("c3")}

DeleteInit ==
    /\ PostIdle
    /\ call = NoCall
    /\ ret = NoCall
    /\ FlowIdle
    /\ table \in DeleteTables
    /\ del = [pc |-> "read", id |-> "c1", companyUrl |-> NoCompany, parentTitle |-> ""]

\* The parent query: company and title of the row of the id, null (written
\* NoCompany and "") when there is no such row.
DeleteReadParent ==
    /\ del.pc = "read"
    /\ LET parent == {r \in table : r.id = del.id}
           companyUrl == IF parent = {} THEN NoCompany
                         ELSE (CHOOSE r \in parent : TRUE).company
           parentTitle == IF parent = {} THEN ""
                          ELSE (CHOOSE r \in parent : TRUE).title
       IN  del' = [del EXCEPT !.companyUrl = companyUrl, !.parentTitle = parentTitle,
                              !.pc = IF companyUrl # NoCompany \/ parentTitle # ""
                                     THEN "contexts" ELSE "row"]
    /\ UNCHANGED <<postVars, upsertVars, flowVars, call, ret, table>>

\* if (companyUrl): the context rows of the company variants are deleted.
DeleteContextsByCompany ==
    /\ del.pc = "contexts"
    /\ del.companyUrl # NoCompany
    /\ LET variants == companyUrlVariants(del.companyUrl)
           eqCompany == IF Len(variants) = 1 THEN variants[1] ELSE del.companyUrl
       IN  table' = table \ contextRows(table, companyFilter(variants, eqCompany))
    /\ del' = [del EXCEPT !.pc = "row"]
    /\ UNCHANGED <<postVars, upsertVars, flowVars, call, ret>>

\* else if (parentTitle): the context rows of the title are deleted.
DeleteContextsByTitle ==
    /\ del.pc = "contexts"
    /\ del.companyUrl = NoCompany
    /\ table' = table \ {r \in table : r.type = "context" /\ r.title = del.parentTitle}
    /\ del' = [del EXCEPT !.pc = "row"]
    /\ UNCHANGED <<postVars, upsertVars, flowVars, call, ret>>

\* The row of the id is deleted and { ok: true } is answered.
DeleteRow ==
    /\ del.pc = "row"
    /\ table' = {r \in table : r.id # del.id}
    /\ del' = [del EXCEPT !.pc = "done"]
    /\ UNCHANGED <<postVars, upsertVars, flowVars, call, ret>>

\* A store call rejects: the handler has no catch, the request fails and
\* nothing more is deleted.
DeleteFails ==
    /\ del.pc \in {"read", "contexts", "row"}
    /\ del' = [del EXCEPT !.pc = "failed"]
    /\ UNCHANGED <<postVars, upsertVars, flowVars, call, ret, table>>

DeleteNext ==
    \/ DeleteReadParent
    \/ DeleteContextsByCompany
    \/ DeleteContextsByTitle
    \/ DeleteRow
    \/ DeleteFails

DeleteSpec == DeleteInit /\ [][DeleteNext]_vars

\* Elements of an array handed to parseStoredMessages: a value that is no
\* object, a user message, a message of an unrecognised role, a message with
\* a number as content, a message whose content cannot be made a string.
JsonItems ==
    {JsonNull, Message("user", <<"x">>, Absent), Message("tool", <<"z">>, 5),
     MessageOf("assistant", "number", 5), MessageOf("user", "unprintable", 5)}

JsonArrays == {JsonArray(q) : q \in SeqsUpTo(JsonItems, MaxJsonItems)}

\* Values of a messages column or payload field: arrays, JSON-encoded
\* strings of arrays and of other values, malformed strings, null, objects.
JsonValues ==
    JsonArrays \cup {JsonText(a) : a \in JsonArrays}
               \cup {JsonText(JsonObject), Malformed, JsonNull, JsonObject, Undefined}

SanitizeInit ==
    /\ PostIdle
    /\ DeleteIdle
    /\ FlowIdle
    /\ call \in {[fn |-> "parseStoredMessages", value |-> v, now |-> 4] :
                    v \in JsonValues}
    /\ ret = NoCall

\* parseStoredMessages returns a list or raises.
SanitizeApply ==
    /\ call.fn = "parseStoredMessages"
    /\ ret = NoCall
    /\ ret' = IF parseStoredThrows(call.value)
              THEN [fn |-> call.fn, threw |-> TRUE, messages |-> <<>>]
              ELSE [fn |-> call.fn, threw |-> FALSE,
                    messages |-> parseStoredMessages(call.value, call.now)]
    /\ UNCHANGED <<postVars, upsertVars, deleteVars, flowVars, call>>

SanitizeNext == SanitizeApply

SanitizeSpec == SanitizeInit /\ [][SanitizeNext]_vars

(***************************************************************************)
(* Content-pack controller                                                 *)
(***************************************************************************)
\* The content of a results snippet, as far as the controller reads it: the
\* keyword phrases its text contains, and its id-bearing fragments in text
\* order.  A fragment is a line "id: tok" or a JSON member "id": "tok".
Content(phrases, frags) == [phrases |-> phrases, frags |-> frags]
IdFragment(k, tok) == [k |-> k, id |-> tok]

\* "<U+FB01>nal post" is "final post" spelled with the ligature U+FB01.
PhrasePool ==
    {"Content Pack", "FINAL POST", "<U+FB01>nal post", "variants", "Asset Brief",
     "Hook", "CTA"}

\* normalizeCompat: String.prototype.normalize("NFKD").
normalizeCompat(t) == IF t = "<U+FB01>nal post" THEN "final post" ELSE t

\* t.includes(phrase) with t the normalized, lowercased text.
includes(content, phrase) ==
    \E q \in content.phrases : toLowerCase(normalizeCompat(q)) = phrase

looksLikeContentPackCoreOnly(content) ==
    LET hasCore ==
            /\ (includes(content, "content pack") \/ includes(content, "final post"))
            /\ (includes(content, "variants") \/ includes(content, "asset brief"))
    IN  hasCore

looksLikeContentPack(content) ==
    LET hasCore ==
            /\ (includes(content, "content pack") \/ includes(content, "final post"))
            /\ (includes(content, "variants") \/ includes(content, "asset brief"))
        hasFields == includes(content, "hook") /\ includes(content, "cta")
    IN  hasCore /\ hasFields

\* Length of the token of a fragment: "a" has one character.
TokenLength(tok) == IF tok = "a" THEN 1 ELSE 2

\* [a-z0-9][a-z0-9._:-]{1,120}: two to 121 characters.
matchesToken(tok) == TokenLength(tok) >= 2 /\ TokenLength(tok) <= 121

RECURSIVE idsOfKind(_, _, _)
idsOfKind(frags, k, i) ==
    IF i > Len(frags) THEN <<>>
    ELSE (IF frags[i].k = k /\ matchesToken(frags[i].id) THEN <<frags[i].id>> ELSE <<>>)
         \o idsOfKind(frags, k, i + 1)

\* extractPackIds: every match of the line pattern, then every match of the
\* JSON pattern, then uniquePreserveOrder.
extractPackIds(content) ==
    uniquePreserveOrder(idsOfKind(content.frags, "line", 1)
                        \o idsOfKind(content.frags, "json", 1))

\* results.flatMap((r) => extractPackIds(r.content))
RECURSIVE flatMapExtract(_, _)
flatMapExtract(results, i) ==
    IF i > Len(results) THEN <<>>
    ELSE extractPackIds(results[i]) \o flatMapExtract(results, i + 1)

\* `ROW-${i + 1}`
RowId(i) == <<"ROW-1", "ROW-2", "ROW-3", "ROW-4">>[i]

buildContentPackController(results) ==
    LET packLike == \E i \in 1 .. Len(results) : looksLikeContentPack(results[i])
        extracted == uniquePreserveOrder(flatMapExtract(results, 1))
    IN  IF ~packLike
        THEN [enabled |-> FALSE, expectedIds |-> <<>>, idSource |-> "none"]
        ELSE IF Len(extracted) > 0
        THEN [enabled |-> TRUE, expectedIds |-> extracted,
              idSource |-> "content_pack_id"]
        ELSE [enabled |-> TRUE,
              expectedIds |-> [i \in 1 .. Len(results) |-> RowId(i)],
              idSource |-> "result_row_index"]

\* Fragments of the snippets: id lines and JSON members of the expected
\* tokens, and an id line whose token is too short to match.
IdFragments ==
    {IdFragment("line", t) : t \in ExpectedPool}
        \cup {IdFragment("json", "a1"), IdFragment("json", "b2"), IdFragment("line", "a")}

\* Phrases of the snippets given to the controller: a full pack or the two
\* field names alone.
SnippetPhrases ==
    {{"FINAL POST", "variants", "Asset Brief", "Hook", "CTA"}, {"Hook", "CTA"}}

\* Lists of at most n results snippets holding at most b fragments together.
RECURSIVE ResultLists(_, _)
ResultLists(n, b) ==
    IF n = 0 THEN {<<>>}
    ELSE {<<>>} \cup
         UNION {LET rests == ResultLists(n - 1, b - k)
                    frags == {f \in SeqsUpTo(IdFragments, k) : Len(f) = k}
                IN  {<<Content(p, f)>> \o rest :
                        p \in SnippetPhrases, f \in frags, rest \in rests} :
                   k \in 0 .. b}

ControllerInit ==
    /\ PostIdle
    /\ DeleteIdle
    /\ FlowIdle
    /\ call \in {[fn |-> "looksLikeContentPack", content |-> Content(p, <<>>)] :
                    p \in SUBSET PhrasePool}
                \cup {[fn |-> "buildContentPackController", results |-> rs] :
                         rs \in ResultLists(MaxResults, MaxIdFragments)}
    /\ ret = NoCall

DetectApply ==
    /\ call.fn = "looksLikeContentPack"
    /\ ret = NoCall
    /\ ret' = [fn |-> call.fn, detected |-> looksLikeContentPack(call.content)]
    /\ UNCHANGED <<postVars, upsertVars, deleteVars, flowVars, call>>

ControllerApply ==
    /\ call.fn = "buildContentPackController"
    /\ ret = NoCall
    /\ ret' = [fn |-> call.fn, controller |-> buildContentPackController(call.results)]
    /\ UNCHANGED <<postVars, upsertVars, deleteVars, flowVars, call>>

ControllerNext == DetectApply \/ ControllerApply

ControllerSpec == ControllerInit /\ [][ControllerNext]_vars

(***************************************************************************)
(* Fallback reply                                                          *)
(***************************************************************************)
\* Error texts of the first call: two that do not hold the low-credit
\* phrase and the phrase in two letter cases.
FallbackErrors ==
    ProviderErrors \cup {"Credit Balance Is Too Low", "Empty model response"}

\* Titles of stored rows: none, whitespace only, plain, padded.
SnippetTitles == {<<>>, <<" ">>, <<"T">>, <<" ", "U", "\n">>}

LoadedSnippets == {Snippet(t, <<"c", " ", "\n", "d">>) : t \in SnippetTitles}

FallbackInit ==
    /\ PostIdle
    /\ DeleteIdle
    /\ FlowIdle
    /\ call \in {[fn |-> "buildFallbackReply",
                  args |-> [providerError |-> e, companyUrl |-> c,
                            title |-> "Conversation", latestUserMessage |-> m,
                            results |-> rs, contexts |-> cs]] :
                    e \in FallbackErrors, c \in {"", "https://example.com"},
                    m \in {<<>>, <<"q">>},
                    rs \in SeqsUpTo(LoadedSnippets, MaxLoaded),
                    cs \in SeqsUpTo(LoadedSnippets, MaxLoaded)}
    /\ ret = NoCall

FallbackApply ==
    /\ call.fn = "buildFallbackReply"
    /\ ret = NoCall
    /\ ret' = [fn |-> call.fn, reply |-> buildFallbackReply(call.args)]
    /\ UNCHANGED <<postVars, upsertVars, deleteVars, flowVars, call>>

FallbackNext == FallbackApply

FallbackSpec == FallbackInit /\ [][FallbackNext]_vars

(***************************************************************************)
(* Model invocation                                                        *)
(***************************************************************************)
\* A content block of a provider response: a text block with a string text,
\* a text block whose text is no string (named by its kind, as the content
\* of a MessageOf), a block of another type, or a value without type.
TextBlock(text) == [type |-> "text", text |-> text]
TextBlockOf(kind) == [type |-> "text", textKind |-> kind]
ToolBlock == [type |-> "tool_use"]

\* The body of a response: text that is no JSON, or the value it parses to.
\* An object has a content member or none.
BodyWith(content) == [t |-> "object", content |-> content]

isTextBlock(b) == "type" \in DOMAIN b /\ b.type = "text"

\* String(b.text ?? "") raises a TypeError on the block.
blockThrows(b) ==
    isTextBlock(b) /\ "text" \notin DOMAIN b /\ b.textKind = "unprintable"

RECURSIVE joinTextBlocks(_, _)
joinTextBlocks(content, i) ==
    IF i > Len(content) THEN <<>>
    ELSE (IF ~isTextBlock(content[i]) THEN <<>>
          ELSE IF "text" \in DOMAIN content[i] THEN content[i].text
          ELSE StringOf(content[i].textKind))
         \o joinTextBlocks(content, i + 1)

\* toTextBlocks: "" unless content is an array, else the texts of its text
\* blocks joined.
toTextBlocks(content) ==
    IF content.t # "array" THEN <<>> ELSE joinTextBlocks(content.items, 1)

\* json.content, undefined unless json is an object with that member.
contentOf(json) ==
    IF json.t = "object" /\ "content" \in DOMAIN json THEN json.content ELSE Undefined

\* toTextBlocks raises on the parsed body.
textBlocksThrow(json) ==
    LET content == contentOf(json)
    IN  /\ content.t = "array"
        /\ \E i \in 1 .. Len(content.items) : blockThrows(content.items[i])

\* res.ok
resOk(status) == status >= 200 /\ status <= 299

Ok(text) == [ok |-> TRUE, reply |-> text]
NoDetail == [t |-> "none"]
ProviderError(kind, detail) == [ok |-> FALSE, kind |-> kind, detail |-> detail]
Returned(result) == [threw |-> FALSE, result |-> result]
Thrown == [threw |-> TRUE, result |-> [ok |-> FALSE]]

\* What fetch does: it is aborted by the timeout, it fails otherwise, or it
\* resolves to a response.
Aborted == [kind |-> "abort"]
NetworkError == [kind |-> "error"]
ResponseOf(status, body) == [kind |-> "response", status |-> status, body |-> body]

callAnthropicIgnoresStatus(fetched, timeoutMs) ==
    IF fetched.kind = "error" THEN Thrown
    ELSE IF fetched.kind = "abort"
    THEN Returned(ProviderError("Anthropic request timed out after", [ms |-> timeoutMs]))
    ELSE IF fetched.body.t = "malformed"
    THEN Returned(ProviderError("Invalid provider JSON response:", fetched.body))
    ELSE IF textBlocksThrow(fetched.body) THEN Thrown
    ELSE LET trimmed == StrTrim(toTextBlocks(contentOf(fetched.body)))
         IN  IF trimmed = <<>> THEN Returned(ProviderError("Empty model response", NoDetail))
             ELSE Returned(Ok(trimmed))

\* callAnthropic: what it returns, or that it raises.  The text of a
\* provider error is its wording with the timeout or the body it quotes.
callAnthropic(fetched, timeoutMs) ==
    IF fetched.kind = "error" THEN Thrown
    ELSE IF fetched.kind = "abort"
    THEN Returned(ProviderError("Anthropic request timed out after", [ms |-> timeoutMs]))
    ELSE IF ~resOk(fetched.status)
    THEN Returned(ProviderError("", fetched.body))
    ELSE IF fetched.body.t = "malformed"
    THEN Returned(ProviderError("Invalid provider JSON response:", fetched.body))
    ELSE IF textBlocksThrow(fetched.body) THEN Thrown
    ELSE LET trimmed == StrTrim(toTextBlocks(contentOf(fetched.body)))
         IN  IF trimmed = <<>> THEN Returned(ProviderError("Empty model response", NoDetail))
             ELSE Returned(Ok(trimmed))

\* Blocks of a response: texts, a blank text, a text block without text, a
\* tool block, null, a text block whose text cannot be made a string.
Blocks ==
    {TextBlock(<<"h", "i">>), TextBlock(<<" ">>), TextBlockOf("null"), ToolBlock,
     JsonNull, TextBlockOf("unprintable")}

ResponseBodies ==
    {BodyWith(JsonArray(q)) : q \in SeqsUpTo(Blocks, MaxBlocks)}
        \cup {BodyWith(JsonNull), JsonObject, JsonNull, [t |-> "malformed"]}

Statuses == {200, 204, 429, 500}

TimeoutValues == {1000, 60000}

Fetched ==
    {Aborted, NetworkError}
        \cup {ResponseOf(s, b) : s \in Statuses, b \in ResponseBodies}

InvokeInit ==
    /\ PostIdle
    /\ DeleteIdle
    /\ FlowIdle
    /\ call \in {[fn |-> "callAnthropic", fetched |-> f, timeoutMs |-> t] :
                    f \in Fetched, t \in TimeoutValues}
    /\ ret = NoCall

InvokeApply ==
    /\ call.fn = "callAnthropic"
    /\ ret = NoCall
    /\ ret' = [fn |-> call.fn, out |-> callAnthropic(call.fetched, call.timeoutMs)]
    /\ UNCHANGED <<postVars, upsertVars, deleteVars, flowVars, call>>

InvokeNext == InvokeApply

InvokeSpec == InvokeInit /\ [][InvokeNext]_vars

(***************************************************************************)
(* POST /api/chat up to the first model call.  chat.log lists the network  *)
(* calls of the request in the order they are issued and answered.         *)
(***************************************************************************)
\* What POST reads of req.json(): a body without conversationId, a body
\* whose messages is no array, or a body with both; hasUser says that the
\* merged history holds a user turn, wantsAll that the latest user message
\* asks for all social entries.
ChatBody(kind, hasUser, wantsAll) ==
    [kind |-> kind, hasUser |-> hasUser, wantsAll |-> wantsAll]

ChatBodies ==
    {ChatBody("noConversationId", FALSE, FALSE), ChatBody("noMessages", FALSE, FALSE)}
        \cup {ChatBody("ok", u, w) : u \in BOOLEAN, w \in BOOLEAN}

\* A request as POST receives it; hasKey: ANTHROPIC_API_KEY is set.
Received(body, hasKey) ==
    [pc |-> "received", body |-> body, hasKey |-> hasKey, parent |-> "",
     pending |-> {}, log |-> <<>>, status |-> 0, reply |-> ""]

\* return NextResponse.json(..., { status })
Answer(c, status, text) == [c EXCEPT !.pc = "answered", !.status = status, !.reply = text]

Issue(c, pcAfter, calls) ==
    [c EXCEPT !.pc = pcAfter, !.log = c.log \o [i \in 1 .. Len(calls) |-> <<calls[i], "issued">>]]

Logged(c, name, what) == [c EXCEPT !.log = Append(c.log, <<name, what>>)]

\* From the sibling rows to the first model call: the user-turn check, the
\* listing of all social entries, getAnthropicEnv, callAnthropic.  A missing
\* key makes getAnthropicEnv throw, which the catch of POST answers with 500.
afterSiblings(c) ==
    IF ~c.body.hasUser THEN Answer(c, 400, "")
    ELSE IF c.body.wantsAll THEN Issue(c, "listing", <<"listing">>)
    ELSE IF ~c.hasKey THEN Answer(c, 500, "")
    ELSE Issue(c, "model", <<"model">>)

\* The body checks, then the parent read is issued.
ChatReceive ==
    /\ chat.pc = "received"
    /\ chat' = (IF chat.body.kind # "ok" THEN Answer(chat, 400, "")
                ELSE Issue(chat, "parent", <<"parent">>))
    /\ UNCHANGED <<postVars, upsertVars, deleteVars, client, call, ret>>

\* The parent read is answered: it fails, it has no row, or it has a row
\* with a company, with a title only, or with neither.  The results read and
\* the context read are issued together (Promise.all) when the row has a
\* company or a title.
ChatParentReturns ==
    /\ chat.pc = "parent"
    /\ \E outcome \in {"error", "none", "company", "title", "bare"} :
        chat' = (IF outcome = "error" THEN Answer(Logged(chat, "parent", "failed"), 500, "")
                 ELSE LET c == [Logged(chat, "parent", "returned") EXCEPT !.parent = outcome]
                      IN  IF outcome = "none" THEN Answer(c, 404, "")
                          ELSE IF outcome = "bare" THEN afterSiblings(c)
                          ELSE [Issue(c, "siblings", <<"results", "context">>)
                                   EXCEPT !.pending = {"results", "context"}])
    /\ UNCHANGED <<postVars, upsertVars, deleteVars, client, call, ret>>

\* The sibling reads not joined: the request goes on when one has returned.
ChatSiblingReturnsUnjoined ==
    /\ chat.pc = "siblings"
    /\ \E k \in chat.pending, ok \in BOOLEAN :
        chat' = (IF ~ok THEN Answer(Logged(chat, k, "failed"), 500, "")
                 ELSE LET c == [Logged(chat, k, "returned") EXCEPT !.pending = @ \ {k}]
                      IN  afterSiblings(c))
    /\ UNCHANGED <<postVars, upsertVars, deleteVars, client, call, ret>>

\* One of the two sibling reads is answered; a failure rejects Promise.all,
\* and the request goes on when both have returned.
ChatSiblingReturns ==
    /\ chat.pc = "siblings"
    /\ \E k \in chat.pending, ok \in BOOLEAN :
        chat' = (IF ~ok THEN Answer(Logged(chat, k, "failed"), 500, "")
                 ELSE LET c == [Logged(chat, k, "returned") EXCEPT !.pending = @ \ {k}]
                      IN  IF c.pending = {} THEN afterSiblings(c) ELSE c)
    /\ UNCHANGED <<postVars, upsertVars, deleteVars, client, call, ret>>

\* The listing of all results rows is answered.
ChatListingReturns ==
    /\ chat.pc = "listing"
    /\ \E ok \in BOOLEAN :
        chat' = (IF ok THEN Answer(Logged(chat, "listing", "returned"), 200, "reply")
                 ELSE Answer(Logged(chat, "listing", "failed"), 500, ""))
    /\ UNCHANGED <<postVars, upsertVars, deleteVars, client, call, ret>>

\* The rest of POST: it answers 200 with the reply it built, or callAnthropic
\* throws and the catch answers 500.
ChatModelReturns ==
    /\ chat.pc = "model"
    /\ \E outcome \in {"reply", "thrown"} :
        chat' = (IF outcome = "thrown" THEN Answer(Logged(chat, "model", "failed"), 500, "")
                 ELSE Answer(Logged(chat, "model", "returned"), 200, "reply"))
    /\ UNCHANGED <<postVars, upsertVars, deleteVars, client, call, ret>>

ChatNext ==
    \/ ChatReceive
    \/ ChatParentReturns
    \/ ChatSiblingReturns
    \/ ChatListingReturns
    \/ ChatModelReturns

RequestInit ==
    /\ PostIdle
    /\ DeleteIdle
    /\ call = NoCall
    /\ ret = NoCall
    /\ client = NoRequest
    /\ chat \in {Received(b, k) : b \in ChatBodies, k \in BOOLEAN}

RequestSpec == RequestInit /\ [][ChatNext]_vars

(***************************************************************************)
(* Snippet derivation                                                      *)
(***************************************************************************)
\* A nullable text column: None is null, Some(s) the string s.
None == <<>>
Some(s) == <<s>>

\* a ?? b on nullable texts
Coalesce(a, b) == IF a # None THEN a ELSE b

SiblingRow(id, context, social) == [id |-> id, context |-> context, social_entry |-> social]

\* (r.context ?? r.social_entry ?? "").trim()
snippetContent(r) ==
    StrTrim(Coalesce(Coalesce(r.context, r.social_entry), Some(<<>>))[1])

\* toSnippets: the id and the content of the rows whose content is not
\* empty, in the order of the rows.
RECURSIVE toPromptSnippets(_)
toPromptSnippets(rows) ==
    IF rows = <<>> THEN <<>>
    ELSE (IF Len(snippetContent(Head(rows))) > 0
          THEN << [id |-> Head(rows).id, content |-> snippetContent(Head(rows))] >>
          ELSE <<>>)
         \o toPromptSnippets(Tail(rows))

\* Columns of the sibling rows: null, empty, blank and padded texts.
ContextValues == {None, Some(<<>>), Some(<<" ">>), Some(<<"c", " ">>)}
SocialValues == {None, Some(<<>>), Some(<<" ", "s">>)}

SiblingRowLists ==
    {[i \in 1 .. Len(q) |-> SiblingRow(i, q[i][1], q[i][2])] :
        q \in SeqsUpTo(ContextValues \X SocialValues, MaxSiblingRows)}

SnippetInit ==
    /\ PostIdle
    /\ DeleteIdle
    /\ FlowIdle
    /\ call \in {[fn |-> "toSnippets", rows |-> rs] : rs \in SiblingRowLists}
    /\ ret = NoCall

SnippetApply ==
    /\ call.fn = "toSnippets"
    /\ ret = NoCall
    /\ ret' = [fn |-> call.fn, snippets |-> toPromptSnippets(call.rows)]
    /\ UNCHANGED <<postVars, upsertVars, deleteVars, flowVars, call>>

SnippetNext == SnippetApply

SnippetSpec == SnippetInit /\ [][SnippetNext]_vars

(***************************************************************************)
(* Message lists sent to the model                                         *)
(***************************************************************************)
\* convoMessages of POST.
convoMessages(stored, incoming) == mergeConsecutive(mergeHistory(stored, incoming))

\* The messages of a repair call: the conversation turns, the synthetic
\* assistant turn and the repair instruction as a user turn.
repairMessages(convo) ==
    convo \o << Turn("assistant", <<"Continue the generation now.">>),
                Turn("user", <<"repairInstruction">>) >>

TurnsInit ==
    /\ PostIdle
    /\ DeleteIdle
    /\ FlowIdle
    /\ call \in {[fn |-> "convoMessages", stored |-> s, incoming |-> i] :
                    s \in StoredTurnLists, i \in IncomingTurnLists}
    /\ ret = NoCall

\* POST builds convoMessages; hasUser false answers 400 and sends nothing.
TurnsApply ==
    /\ call.fn = "convoMessages"
    /\ ret = NoCall
    /\ LET convo == convoMessages(call.stored, call.incoming)
       IN  ret' = [fn |-> call.fn,
                   hasUser |-> \E i \in 1 .. Len(convo) : convo[i].role = "user",
                   first |-> convo,
                   repair |-> repairMessages(convo)]
    /\ UNCHANGED <<postVars, upsertVars, deleteVars, flowVars, call>>

TurnsNext == TurnsApply

TurnsSpec == TurnsInit /\ [][TurnsNext]_vars

(***************************************************************************)
(* Conversation listing (GET /api/sogood_rag)                              *)
(***************************************************************************)
ListingRow(id, company, social, title, messages, created) ==
    [id |-> id, company |-> company, social_entry |-> social, title |-> title,
     messages |-> messages, created_at |-> created]

\* canonicalizeCompanyUrl(r.company) ?? canonicalizeCompanyUrl(r.social_entry)
companyOfRow(r) ==
    LET canon == canonicalizeCompanyUrl(r.company)
    IN  IF canon # NoCompany THEN canon ELSE canonicalizeCompanyUrl(r.social_entry)

\* (r.title ?? "").trim().toLowerCase()
titleKey(title) ==
    LET t == StrTrim(Coalesce(title, Some(<<>>))[1])
    IN  [i \in 1 .. Len(t) |-> toLowerCase(t[i])]

\* companyKeyForRow: the strings "company:...", "chat:..." and "title:..."
\* kept as the prefix and the rest.
companyKeyForRow(r) ==
    LET canon == companyOfRow(r)
    IN  IF canon # NoCompany THEN [prefix |-> "company", company |-> canon]
        ELSE IF Len(parseStoredMessages(r.messages, r.created_at)) > 0
             THEN [prefix |-> "chat", id |-> r.id]
        ELSE [prefix |-> "title", title |-> titleKey(r.title)]

\* The for loop filling byCompanyKey: groups in the order of their first row.
RECURSIVE groupRowsFrom(_, _, _)
groupRowsFrom(rows, i, groups) ==
    IF i > Len(rows) THEN groups
    ELSE LET k == companyKeyForRow(rows[i])
             at == {g \in 1 .. Len(groups) : groups[g].key = k}
         IN  IF at # {}
             THEN LET g == CHOOSE x \in at : TRUE
                  IN  groupRowsFrom(rows, i + 1,
                          [groups EXCEPT ![g].rows = Append(@, rows[i])])
             ELSE groupRowsFrom(rows, i + 1,
                          Append(groups, [key |-> k, rows |-> <<rows[i]>>]))

\* Array.isArray(a.messages) ? a.messages.length : 0
rawMessageCount(r) == IF r.messages.t = "array" THEN Len(r.messages.items) ELSE 0

\* The comparator of the sort inside a group.
compareRows(a, b) ==
    LET aMsgs == rawMessageCount(a)
        bMsgs == rawMessageCount(b)
        aCompany == companyOfRow(a) # NoCompany
        bCompany == companyOfRow(b) # NoCompany
    IN  IF aMsgs # bMsgs THEN bMsgs - aMsgs
        ELSE IF aCompany # bCompany THEN (IF aCompany THEN -1 ELSE 1)
        ELSE b.created_at - a.created_at

\* sorted[0]: the sort is stable and the comparator a total preorder, so the
\* first element is the first row of the group that no row precedes.
primaryOf(group) ==
    LET heads == {i \in 1 .. Len(group) :
                     \A j \in 1 .. Len(group) : compareRows(group[j], group[i]) >= 0}
        first == CHOOSE i \in heads : \A j \in heads : i <= j
    IN  group[first]

\* Math.max(...group.map(created_at))
latestAtOf(group) ==
    CHOOSE t \in {group[i].created_at : i \in 1 .. Len(group)} :
        \A i \in 1 .. Len(group) : group[i].created_at <= t

\* groups.sort((a, b) => b.latestAt - a.latestAt), stable: insertion of
\* each group after the groups that are not older.
RECURSIVE sortByLatestFrom(_, _, _)
sortByLatestFrom(groups, i, out) ==
    IF i > Len(groups) THEN out
    ELSE LET g == groups[i]
             ahead == Cardinality({j \in 1 .. Len(out) : out[j].latestAt >= g.latestAt})
         IN  sortByLatestFrom(groups, i + 1,
                 SubSeq(out, 1, ahead) \o <<g>> \o SubSeq(out, ahead + 1, Len(out)))

\* GET: the groups with their primary row, newest group first.  Of an entry
\* the id of its row, its key and the ids of its group are kept.
listConversations(rows) ==
    LET byCompanyKey == groupRowsFrom(rows, 1, <<>>)
        groups == [g \in 1 .. Len(byCompanyKey) |->
                      [key |-> byCompanyKey[g].key,
                       primary |-> primaryOf(byCompanyKey[g].rows),
                       latestAt |-> latestAtOf(byCompanyKey[g].rows),
                       group |-> byCompanyKey[g].rows]]
    IN  sortByLatestFrom(groups, 1, <<>>)

ExampleCompany(slashes) == Url("https", "example.com", "", Path("a", slashes))
StoredMessage == Message("user", <<"x">>, 5)

\* Rows of type results without id and creation time: ingested results of a
\* company, a chat thread of the company stored as an array and one stored
\* as JSON text, a row whose company is in social_entry only, and rows
\* without company: a chat thread and rows with and without title.
ListingShapes ==
    { <<ExampleCompany(0), NoCompany, Some(<<"t">>), JsonNull>>,
      <<ExampleCompany(1), NoCompany, Some(<<"t">>), JsonArray(<<StoredMessage>>)>>,
      <<ExampleCompany(0), NoCompany, None,
        JsonText(JsonArray(<<StoredMessage, StoredMessage>>))>>,
      <<NoCompany, ExampleCompany(0), None, JsonNull>>,
      <<PlainText, NoCompany, Some(<<"t">>), JsonArray(<<StoredMessage>>)>>,
      <<NoCompany, NoCompany, Some(<<"t">>), JsonNull>>,
      <<NoCompany, NoCompany, Some(<<"T", " ">>), JsonArray(<<>>)>>,
      <<NoCompany, NoCompany, None, JsonNull>> }

\* Creation times of n rows as the store returns them (created_at.desc).
CreationTimes(n) ==
    {t \in [1 .. n -> 1 .. MaxListingRows] : \A i \in 1 .. n - 1 : t[i] >= t[i + 1]}

ListingTables ==
    UNION {{[i \in 1 .. n |->
                ListingRow(<<"row", i>>, s[i][1], s[i][2], s[i][3], s[i][4], t[i])] :
              s \in [1 .. n -> ListingShapes], t \in CreationTimes(n)} :
           n \in 0 .. MaxListingRows}

ListingInit ==
    /\ PostIdle
    /\ DeleteIdle
    /\ FlowIdle
    /\ call \in {[fn |-> "GET", rows |-> rs] : rs \in ListingTables}
    /\ ret = NoCall

ListingApply ==
    /\ call.fn = "GET"
    /\ ret = NoCall
    /\ ret' = [fn |-> call.fn, conversations |-> listConversations(call.rows)]
    /\ UNCHANGED <<postVars, upsertVars, deleteVars, flowVars, call>>

ListingNext == ListingApply

ListingSpec == ListingInit /\ [][ListingNext]_vars

(***************************************************************************)
(* The client's send flow (sendMessage of ChatApp)                         *)
(***************************************************************************)
\* client: pc, the position of the send; loading, the isLoading flag;
\* saved, the answer of the save made before the chat call; chatCalls, the
\* chat calls issued; statuses, the statuses of the chat calls answered;
\* delayed, the 250 ms wait has run; assistantAdded, an assistant message
\* was appended; saves, the save calls issued; outcome, how the send ended.
Typed(content, hasTarget) ==
    [pc |-> "start", content |-> content, hasTarget |-> hasTarget, loading |-> FALSE,
     saved |-> "none", chatCalls |-> 0, statuses |-> <<>>, delayed |-> FALSE,
     assistantAdded |-> FALSE, saves |-> 0, outcome |-> ""]

\* The finally block, after the return or the catch named by outcome.
Finished(c, outcome) == [c EXCEPT !.pc = "done", !.loading = FALSE, !.outcome = outcome]

\* The synchronous part of sendMessage: it returns on an empty text or a
\* missing target conversation, else sets isLoading and starts the save.
SendMessage ==
    /\ client.pc = "start"
    /\ client' = (IF StrTrim(client.content) = <<>>
                  THEN [client EXCEPT !.pc = "done", !.outcome = "emptyContent"]
                  ELSE IF ~client.hasTarget
                  THEN [client EXCEPT !.pc = "done", !.outcome = "noTarget"]
                  ELSE [client EXCEPT !.pc = "saving", !.loading = TRUE, !.saves = 1])
    /\ UNCHANGED <<postVars, upsertVars, deleteVars, chat, call, ret>>

\* The first chat call as the client issues it: the messages hold the text
\* just typed as a user turn.
ChatCall(c) == [c EXCEPT !.pc = "chat", !.chatCalls = @ + 1]

\* The save answered, the chat call issued whatever the answer.
ClientSaveReturnsUnchecked ==
    /\ client.pc = "saving"
    /\ \E ok \in BOOLEAN, wantsAll \in BOOLEAN, hasKey \in BOOLEAN :
        /\ client' = ChatCall([client EXCEPT !.saved = IF ok THEN "ok" ELSE "failed"])
        /\ chat' = Received(ChatBody("ok", TRUE, wantsAll), hasKey)
    /\ UNCHANGED <<postVars, upsertVars, deleteVars, call, ret>>

\* saveConversation is answered: ok, or not ok (a status that is not ok, or
\* a fetch that threw, which saveConversation catches).  On ok the chat
\* call is issued, else the send returns.
ClientSaveReturns ==
    /\ client.pc = "saving"
    /\ \E ok \in BOOLEAN, wantsAll \in BOOLEAN, hasKey \in BOOLEAN :
        IF ok
        THEN /\ client' = ChatCall([client EXCEPT !.saved = "ok"])
             /\ chat' = Received(ChatBody("ok", TRUE, wantsAll), hasKey)
        ELSE /\ client' = Finished([client EXCEPT !.saved = "failed"], "saveFailed")
             /\ UNCHANGED chat
    /\ UNCHANGED <<postVars, upsertVars, deleteVars, call, ret>>

\* The chat call answered, every status that is not ok retried once.
ClientChatAnsweredRetriesErrors ==
    /\ client.pc = "chat"
    /\ chat.pc = "answered"
    /\ LET c == [client EXCEPT !.statuses = Append(@, chat.status)]
       IN  client' = (IF chat.status # 200 /\ client.chatCalls = 1
                      THEN [c EXCEPT !.pc = "delay"]
                      ELSE IF chat.status # 200 THEN Finished(c, "chatError")
                      ELSE [Finished(c, "success") EXCEPT !.assistantAdded = TRUE])
    /\ UNCHANGED <<postVars, upsertVars, deleteVars, chat, call, ret>>

\* fetch resolves with the answer of POST /api/chat.  A 404 to the first
\* call starts the delay; else the body is read (res.text() may reject) and
\* parsed (a body that is no JSON gives no reply); a status that is not ok
\* or a missing reply ends the send; else the assistant message is appended
\* and the conversation saved again, when the state updater has run by then.
ClientChatAnswered ==
    /\ client.pc = "chat"
    /\ chat.pc = "answered"
    /\ \E textRejects \in BOOLEAN, parsed \in BOOLEAN, updaterRan \in BOOLEAN :
        LET c == [client EXCEPT !.statuses = Append(@, chat.status)]
            data == IF parsed THEN chat.reply ELSE ""
        IN  client' = (IF chat.status = 404 /\ client.chatCalls = 1
                       THEN [c EXCEPT !.pc = "delay"]
                       ELSE IF textRejects THEN Finished(c, "exception")
                       ELSE IF chat.status # 200 THEN Finished(c, "chatError")
                       ELSE IF data = "" THEN Finished(c, "emptyReply")
                       ELSE IF updaterRan
                       THEN [c EXCEPT !.pc = "savingAfter", !.assistantAdded = TRUE,
                                      !.saves = @ + 1]
                       ELSE [Finished(c, "success") EXCEPT !.assistantAdded = TRUE])
    /\ UNCHANGED <<postVars, upsertVars, deleteVars, chat, call, ret>>

\* fetch rejects (the network fails): the catch logs, the finally runs.
ClientChatRejects ==
    /\ client.pc = "chat"
    /\ client' = Finished(client, "exception")
    /\ UNCHANGED <<postVars, upsertVars, deleteVars, chat, call, ret>>

\* The 250 ms timer fires and the chat call is issued again.
ClientDelayEnds ==
    /\ client.pc = "delay"
    /\ \E hasKey \in BOOLEAN :
        /\ client' = ChatCall([client EXCEPT !.delayed = TRUE])
        /\ chat' = Received(chat.body, hasKey)
    /\ UNCHANGED <<postVars, upsertVars, deleteVars, call, ret>>

\* The save after the assistant message is answered; its failure is logged.
ClientSaveAfterReturns ==
    /\ client.pc = "savingAfter"
    /\ client' = Finished(client, "success")
    /\ UNCHANGED <<postVars, upsertVars, deleteVars, chat, call, ret>>

SendNext ==
    \/ SendMessage
    \/ ClientSaveReturns
    \/ ChatReceive
    \/ ChatParentReturns
    \/ ChatSiblingReturns
    \/ ChatListingReturns
    \/ ChatModelReturns
    \/ ClientChatAnswered
    \/ ClientChatRejects
    \/ ClientDelayEnds
    \/ ClientSaveAfterReturns

SendInit ==
    /\ PostIdle
    /\ DeleteIdle
    /\ call = NoCall
    /\ ret = NoCall
    /\ chat = NoRequest
    /\ client \in {Typed(t, h) : t \in {<<>>, <<" ">>, <<"h", "i">>}, h \in BOOLEAN}

SendSpec == SendInit /\ [][SendNext]_vars

\* Every promise the send awaits settles and every request is answered.
SendLiveSpec == SendSpec /\ WF_vars(SendNext)

(***************************************************************************)
(* Properties                                                              *)
(***************************************************************************)
Responded == pc = "done" /\ response.status = 200 /\ ~response.fallback

StillMissing == Len(coverage.missingIds) > 0

SeqToSet(q) == {q[i] : i \in 1 .. Len(q)}

MinOf(S) == CHOOSE x \in S : \A y \in S : x <= y

\* Steps POST can still take: the first call, then one per pass left.
StepsLeft ==
    IF pc = "done" THEN 0
    ELSE IF pc = "firstCall" THEN maxPasses + 2
    ELSE maxPasses - repairPasses

\* C1: the repair loop terminates whatever the repair calls answer (every
\* step of the request strictly lowers a natural number), and the number of
\* repair calls issued in one request never exceeds maxPasses.
C1_RepairLoopTerminates ==
    /\ [](repairCalls <= maxPasses /\ repairPasses <= repairCalls /\ StepsLeft >= 0)
    /\ [][StepsLeft' < StepsLeft]_vars

\* The loop was stopped by the pass budget alone.
C1_Witness ==
    /\ Responded
    /\ maxPasses > 0
    /\ repairCalls = maxPasses
    /\ StillMissing
    /\ stalledPasses < StallLimit

\* C2: with the controller enabled and an id missing after the first
\* completion at least one repair pass is issued, and every pass targets the
\* first min(batchSize, #missing) missing ids, a single missing id exactly.
C2_RepairPassTargets ==
    /\ (firstCall = "ok" /\ enabled /\ (repairAttempted \/ StillMissing))
           => repairCalls >= 1
    /\ pc = "repairCall" =>
          /\ targetIds = SubSeq(coverage.missingIds, 1,
                                Min(batchSize, Len(coverage.missingIds)))
          /\ (Len(coverage.missingIds) = 1 => targetIds = coverage.missingIds)

LastTwoStalled ==
    /\ Len(passLog) >= 2
    /\ passLog[Len(passLog)] = "stalled"
    /\ passLog[Len(passLog) - 1] = "stalled"

\* C3: no pass is issued once the last two passes were both stalled; a
\* productive pass resets the stall count, so the loop stops short of
\* maxPasses with ids missing only when the last two passes were stalled.
C3_StallDetection ==
    /\ pc = "repairCall" => ~LastTwoStalled
    /\ (Responded /\ repairAttempted /\ StillMissing /\ repairPasses < maxPasses)
           => LastTwoStalled
    /\ (Len(passLog) > 0 /\ passLog[Len(passLog)] = "productive")
           => stalledPasses = 0

\* stalled, productive, stalled, stalled: only the last two stop the loop.
C3_Witness ==
    /\ Responded
    /\ StillMissing
    /\ repairPasses < maxPasses
    /\ passLog = <<"stalled", "productive", "stalled", "stalled">>

\* C4: a repair call that fails (provider error or transport error) is one
\* stalled pass: it counts toward maxPasses, leaves the block map and the
\* coverage unchanged and aborts neither the loop nor the request.
C4_FailedRepairIsStalledPass ==
    [][(pc = "repairCall" /\ (RepairCallError \/ CallThrows)) =>
          /\ repairPasses' = repairPasses + 1
          /\ stalledPasses' = stalledPasses + 1
          /\ blocksById' = blocksById
          /\ coverage' = coverage
          /\ response'.status # 500]_vars

\* C5: the fallback reply is returned exactly when the first call yields a
\* provider error, with status 200 and without any repair call.
C5_FallbackIffFirstCallFails ==
    /\ response.fallback <=> firstCall = "providerError"
    /\ response.fallback =>
          /\ pc = "done"
          /\ response.status = 200
          /\ repairCalls = 0
          /\ \E e \in ProviderErrors : response.reply = buildFallbackReply(FallbackArgs(e))

C5_Witness == firstCall = "providerError" /\ response.fallback

\* C6: outputIds and missingIds partition the expected ids, each in expected
\* order, and outputIds are the expected ids that have a collected block.
C6_CoveragePartition ==
    (firstCall = "ok" /\ enabled) =>
        LET out == coverage.outputIds
            mis == coverage.missingIds
            IsOut(id) == id \in SeqToSet(out)
            IsMissing(id) == id \in SeqToSet(mis)
        IN  /\ SeqToSet(out) \cap SeqToSet(mis) = {}
            /\ SeqToSet(out) \cup SeqToSet(mis) = SeqToSet(expectedIds)
            /\ Len(out) + Len(mis) = Len(expectedIds)
            /\ out = SelectSeq(expectedIds, IsOut)
            /\ mis = SelectSeq(expectedIds, IsMissing)
            /\ SeqToSet(out) = SeqToSet(expectedIds) \cap DOMAIN blocksById
            /\ (SeqToSet(expectedIds) \subseteq DOMAIN blocksById => mis = <<>>)

\* Two expected ids, the second one collected and the first one missing.
C6_Witness ==
    /\ firstCall = "ok"
    /\ enabled
    /\ Len(expectedIds) = 2
    /\ coverage.outputIds = <<expectedIds[2]>>
    /\ coverage.missingIds = <<expectedIds[1]>>

\* The reply as it is before the server coverage block is appended.
BeforeCoverageBlock(r) ==
    IF enabled /\ StillMissing /\ Len(r) >= 5 THEN SubSeq(r, 1, Len(r) - 5) ELSE r

RECURSIVE ConcatBlocks(_)
ConcatBlocks(ids) ==
    IF ids = <<>> THEN <<>>
    ELSE IF Len(ids) = 1 THEN blocksById[ids[1]]
    ELSE blocksById[ids[1]] \o <<BlankLine>> \o ConcatBlocks(Tail(ids))

\* C7 as claimed: whenever the repair loop has run, the reply before the
\* coverage block is the collected blocks concatenated in expected-id order
\* and holds no text outside an id block.
C7_ReplyIsCompiledBlocks ==
    (Responded /\ repairPasses >= 1) =>
        /\ BeforeCoverageBlock(response.reply) = ConcatBlocks(coverage.outputIds)
        /\ response.reply[1].k = "id"

\* C7 as amended: whenever the repair loop has run and at least one block was
\* collected, the reply before the coverage block is the collected blocks
\* concatenated in expected-id order and holds no text outside an id block;
\* with no block collected it is a completion's text, unchanged.
C7_ReplyIsCompiledBlocksIfAny ==
    (Responded /\ repairPasses >= 1) =>
        IF DOMAIN blocksById # {}
        THEN /\ BeforeCoverageBlock(response.reply) = ConcatBlocks(coverage.outputIds)
             /\ response.reply[1].k = "id"
        ELSE BeforeCoverageBlock(response.reply) \in Replies

\* Both blocks collected over at least two passes.
C7_Witness ==
    /\ Responded
    /\ repairAttempted
    /\ repairPasses >= 2
    /\ Len(coverage.outputIds) = 2
    /\ Len(response.reply) > 3

EndsWithServerBlock(r) ==
    /\ Len(r) >= 4
    /\ r[Len(r) - 3] = Line("marker", "[SERVER COVERAGE CHECK]")

\* C8: a successful reply ends with the server coverage block exactly when
\* the controller is enabled and an id is still missing; the block lists the
\* expected, covered and missing ids of the final coverage.
C8_ServerCoverageBlock ==
    Responded =>
        /\ EndsWithServerBlock(response.reply) <=> (enabled /\ StillMissing)
        /\ (enabled /\ StillMissing) =>
              LET r == response.reply
                  n == Len(r)
              IN  /\ r[n - 2] = [k |-> "text", tok |-> "Input IDs:", ids |-> expectedIds]
                  /\ r[n - 1] = [k |-> "text", tok |-> "Output IDs:", ids |-> coverage.outputIds]
                  /\ r[n] = [k |-> "text", tok |-> "Missing IDs:", ids |-> coverage.missingIds]

C8_Witness ==
    /\ Responded
    /\ enabled
    /\ StillMissing
    /\ Len(coverage.outputIds) > 0
    /\ EndsWithServerBlock(response.reply)

\* C9: no repair call is issued when the controller is disabled or no id is
\* missing after the first completion, and the reply returned is then the
\* first completion's text unchanged.
C9_NoRepairWhenNotNeeded ==
    [][(pc = "firstCall" /\ firstCall' = "ok"
            /\ (~enabled \/ Len(coverage'.missingIds) = 0)) =>
          /\ pc' = "done"
          /\ repairCalls' = 0
          /\ ~repairAttempted'
          /\ response'.status = 200
          /\ firstReply' \in Replies
          /\ response'.reply = firstReply']_vars

\* Every id covered by a first completion that also carries stray prose.
C9_Witness ==
    /\ Responded
    /\ enabled
    /\ repairCalls = 0
    /\ ~StillMissing
    /\ firstReply[1].k = "text"
    /\ response.reply = firstReply

FirstMarker(lines) ==
    MinOf({i \in 1 .. Len(lines) : isCoverageMarkerLine(lines[i])} \cup {Len(lines) + 1})

\* Positions before `stop` of the id lines whose token is an expected id.
OpeningLines(lines, expected, stop) ==
    {i \in 1 .. stop - 1 :
        /\ isIdLine(lines[i])
        /\ \E j \in 1 .. Len(expected) :
              toLowerCase(expected[j]) = toLowerCase(lines[i].tok)}

\* C10: parsing stops at the first coverage-marker line: the blocks are
\* those opened before the marker, each holding the lines up to the next id
\* line or the marker, whichever comes first.
C10_ParsingStopsAtMarker ==
    (call.fn = "splitReplyIntoIdBlocks" /\ ret # NoCall) =>
        LET lines == call.reply
            stop == FirstMarker(lines)
            opens == OpeningLines(lines, call.expectedIds, stop)
            Nth(k) == CHOOSE i \in opens : Cardinality({j \in opens : j < i}) = k - 1
            EndOf(i) == MinOf({j \in i + 1 .. stop - 1 : isIdLine(lines[j])} \cup {stop})
        IN  /\ Len(ret.blocks) = Cardinality(opens)
            /\ \A k \in 1 .. Len(ret.blocks) :
                  /\ toLowerCase(ret.blocks[k].id) = toLowerCase(lines[Nth(k)].tok)
                  /\ ret.blocks[k].block =
                        Trim(<<IdLine(ret.blocks[k].id)>>
                             \o SubSeq(lines, Nth(k) + 1, EndOf(Nth(k)) - 1))

\* An open block holding one text line is cut by the marker, and an id line
\* for an expected id follows the marker.
C10_Witness ==
    /\ call.fn = "splitReplyIntoIdBlocks"
    /\ ret # NoCall
    /\ Len(call.reply) = 4
    /\ call.reply[1] = IdLine("a1")
    /\ call.reply[2] = TextLine
    /\ call.reply[3] = MarkerLine
    /\ call.reply[4] = IdLine("b2")
    /\ call.expectedIds = <<"a1", "b2">>
    /\ Len(ret.blocks) = 1
    /\ ret.blocks[1].block = <<IdLine("a1"), TextLine>>

\* Position of the nearest id line before line i, 0 when there is none.
LastIdLineBefore(lines, i) ==
    LET before == {j \in 1 .. i - 1 : isIdLine(lines[j])}
    IN  IF before = {} THEN 0 ELSE CHOOSE j \in before : \A h \in before : h <= j

IsExpectedToken(expected, tok) ==
    \E j \in 1 .. Len(expected) : toLowerCase(expected[j]) = toLowerCase(tok)

\* C11: every block carries an expected id in the expected list's casing,
\* matched case-insensitively; an id line with an unexpected token closes the
\* open block and opens none, so the lines after it belong to no block.
C11_BlocksCarryExpectedIds ==
    (call.fn = "splitReplyIntoIdBlocks" /\ ret # NoCall) =>
        LET lines == call.reply
            expected == call.expectedIds
            stop == FirstMarker(lines)
            blocks == ret.blocks
            attributed ==
                {i \in 1 .. stop - 1 :
                    /\ lines[i].k = "text"
                    /\ LastIdLineBefore(lines, i) # 0
                    /\ IsExpectedToken(expected, lines[LastIdLineBefore(lines, i)].tok)}
            inBlocks ==
                {p \in (1 .. Len(blocks)) \X (1 .. Len(lines)) :
                    /\ p[2] <= Len(blocks[p[1]].block)
                    /\ blocks[p[1]].block[p[2]].k = "text"}
        IN  /\ \A k \in 1 .. Len(blocks) :
                  /\ blocks[k].id \in SeqToSet(expected)
                  /\ blocks[k].block[1] = IdLine(blocks[k].id)
                  /\ \A i \in 2 .. Len(blocks[k].block) : ~isIdLine(blocks[k].block[i])
                  /\ \E i \in 1 .. stop - 1 :
                        /\ isIdLine(lines[i])
                        /\ toLowerCase(lines[i].tok) = toLowerCase(blocks[k].id)
            /\ Cardinality(inBlocks) = Cardinality(attributed)

\* The token "A1" opens the block of the expected id "a1"; the id line "zz"
\* closes it and the text after it is in no block.
C11_Witness ==
    /\ call.fn = "splitReplyIntoIdBlocks"
    /\ ret # NoCall
    /\ call.reply = <<IdLine("A1"), TextLine, IdLine("zz"), TextLine>>
    /\ call.expectedIds = <<"a1">>
    /\ ret.blocks = <<[id |-> "a1", block |-> <<IdLine("a1"), TextLine>>]>>

\* C12: mergeHistory returns incoming unchanged when stored is empty, stored
\* unchanged when incoming is empty, and incoming unchanged whenever incoming
\* has at least as many turns as stored.
C12_TrustsIncomingWhenNotShorter ==
    (call.fn = "mergeHistory" /\ ret # NoCall) =>
        /\ call.stored = <<>> => ret.merged = call.incoming
        /\ (call.stored # <<>> /\ call.incoming = <<>>) => ret.merged = call.stored
        /\ Len(call.incoming) >= Len(call.stored) => ret.merged = call.incoming

\* Stored and incoming histories of one turn each, with different turns: the
\* incoming one is returned.
C12_Witness ==
    /\ call.fn = "mergeHistory"
    /\ ret # NoCall
    /\ call.stored = <<Turn("user", <<"a">>)>>
    /\ call.incoming = <<Turn("assistant", <<"b">>)>>
    /\ ret.merged = call.incoming

\* The case of the tail append: incoming is non-empty and strictly shorter.
TailAppendCase ==
    /\ call.fn = "mergeHistory"
    /\ ret # NoCall
    /\ call.incoming # <<>>
    /\ Len(call.incoming) < Len(call.stored)

\* The entries of q at the positions of K, in order.
RECURSIVE RestrictFrom(_, _, _)
RestrictFrom(q, K, i) ==
    IF i > Len(q) THEN <<>>
    ELSE IF i \in K THEN <<q[i]>> \o RestrictFrom(q, K, i + 1)
    ELSE RestrictFrom(q, K, i + 1)

SameRoleAndText(a, b) == a.role = b.role /\ StrTrim(a.content) = StrTrim(b.content)

\* C13 as stated: stored followed by exactly the incoming turns that do not
\* match the last entry of stored.
C13_TailAppendAgainstStoredLast ==
    TailAppendCase =>
        LET last == call.stored[Len(call.stored)]
            kept == {i \in 1 .. Len(call.incoming) :
                        ~SameRoleAndText(last, call.incoming[i])}
        IN  ret.merged = call.stored \o RestrictFrom(call.incoming, kept, 1)

\* C13 amended: stored followed by exactly the incoming turns that do not
\* match the entry just before them in the list being built, which is the
\* last entry of stored for the first incoming turn and the preceding
\* incoming turn for the others; incoming is never returned in place of stored.
C13_TailAppendAgainstCurrentLast ==
    TailAppendCase =>
        LET last == call.stored[Len(call.stored)]
            before(i) == IF i = 1 THEN last ELSE call.incoming[i - 1]
            kept == {i \in 1 .. Len(call.incoming) :
                        ~SameRoleAndText(before(i), call.incoming[i])}
        IN  /\ ret.merged = call.stored \o RestrictFrom(call.incoming, kept, 1)
            /\ ret.merged # call.incoming

\* Two equal incoming turns that differ from the last stored one: the second
\* is compared with the first and appended once.
C13_Witness ==
    /\ TailAppendCase
    /\ call.stored = <<Turn("user", <<"a">>), Turn("assistant", <<"b">>),
                       Turn("user", <<"a">>)>>
    /\ call.incoming = <<Turn("assistant", <<"b">>), Turn("assistant", <<"b">>)>>
    /\ ret.merged = Append(call.stored, Turn("assistant", <<"b">>))

OccursIn(t, q) == \E i \in 1 .. Len(q) : SameRoleAndText(q[i], t)

\* C14 as stated: a strictly shorter incoming list whose turns all occur in
\* stored leaves stored as it is.
C14_NoDuplication ==
    (/\ call.fn = "mergeHistory"
     /\ ret # NoCall
     /\ Len(call.incoming) < Len(call.stored)
     /\ \A i \in 1 .. Len(call.incoming) : OccursIn(call.incoming[i], call.stored))
        => ret.merged = call.stored

\* C15 as stated: every turn of stored and every turn of incoming occurs in
\* the merged list.
C15_NoLoss ==
    (call.fn = "mergeHistory" /\ ret # NoCall) =>
        /\ \A i \in 1 .. Len(call.stored) : OccursIn(call.stored[i], ret.merged)
        /\ \A i \in 1 .. Len(call.incoming) : OccursIn(call.incoming[i], ret.merged)

\* The turns of the input that mergeConsecutive does not skip, trimmed.
RECURSIVE NonEmptyTrimmed(_)
NonEmptyTrimmed(messages) ==
    IF messages = <<>> THEN <<>>
    ELSE LET c == StrTrim(Head(messages).content)
             rest == NonEmptyTrimmed(Tail(messages))
         IN  IF c = <<>> THEN rest ELSE <<Turn(Head(messages).role, c)>> \o rest

\* The contents of q[from .. to] joined by a blank line.
RECURSIVE JoinRange(_, _, _)
JoinRange(q, from, to) ==
    IF from = to THEN q[from].content
    ELSE q[from].content \o <<"\n", "\n">> \o JoinRange(q, from + 1, to)

\* C16: in the list mergeConsecutive returns no two adjacent turns have the
\* same role and no turn has empty content; the k-th output turn is the k-th
\* maximal run of same-role turns of the non-empty input turns, its content
\* their trimmed contents joined by a blank line, in input order.
C16_MergeConsecutiveRuns ==
    (call.fn = "mergeConsecutive" /\ ret # NoCall) =>
        LET out == ret.turns
            kept == NonEmptyTrimmed(call.messages)
            starts == {i \in 1 .. Len(kept) : i = 1 \/ kept[i].role # kept[i - 1].role}
            startOf(k) == CHOOSE i \in starts :
                              Cardinality({j \in starts : j <= i}) = k
            endOf(k) == IF k = Cardinality(starts) THEN Len(kept)
                        ELSE startOf(k + 1) - 1
        IN  /\ \A k \in 1 .. Len(out) - 1 : out[k].role # out[k + 1].role
            /\ \A k \in 1 .. Len(out) : out[k].content # <<>>
            /\ Len(out) = Cardinality(starts)
            /\ \A k \in 1 .. Len(out) :
                  /\ out[k].role = kept[startOf(k)].role
                  /\ out[k].content = JoinRange(kept, startOf(k), endOf(k))

\* Two user turns around a whitespace-only user turn: the two are joined by
\* a blank line and the whitespace-only one leaves no trace.
C16_Witness ==
    /\ call.fn = "mergeConsecutive"
    /\ ret # NoCall
    /\ call.messages = <<Turn("user", <<"a">>), Turn("user", <<" ">>),
                         Turn("user", <<" ", "b", "\n">>)>>
    /\ ret.turns = <<Turn("user", <<"a", "\n", "\n", "b">>)>>

\* C17 as stated: for a social entry that is not blank, the first message
\* normalizeMessages returns is a system message whose trimmed content is the
\* trimmed social entry, and the list has at most one message more than the
\* input.
C17_SocialEntryFirst ==
    (/\ call.fn = "normalizeMessages"
     /\ ret # NoCall
     /\ StrTrim(call.socialEntry) # <<>>)
        => /\ ret.messages # <<>>
           /\ ret.messages[1].role = "system"
           /\ StrTrim(ret.messages[1].content) = StrTrim(call.socialEntry)
           /\ Len(ret.messages) <= Len(call.messages) + 1

\* C18: pickMostCompleteMessages returns the longer list; on equal lengths
\* the list whose last message has the newer timestamp, incoming when the
\* timestamps are equal; when one list is empty, the other.
C18_MostCompleteWins ==
    (call.fn = "pickMostCompleteMessages" /\ ret # NoCall) =>
        LET e == call.existing
            i == call.incoming
            lastTs(q) == q[Len(q)].timestamp
        IN  /\ Len(i) > Len(e) => ret.messages = i
            /\ Len(e) > Len(i) => ret.messages = e
            /\ (Len(e) = Len(i) /\ e # <<>> /\ lastTs(i) >= lastTs(e)) => ret.messages = i
            /\ (Len(e) = Len(i) /\ e # <<>> /\ lastTs(i) < lastTs(e)) => ret.messages = e
            /\ e = <<>> => ret.messages = i
            /\ i = <<>> => ret.messages = e

\* Two different one-message lists with equal last timestamps: incoming wins.
C18_Witness ==
    /\ call.fn = "pickMostCompleteMessages"
    /\ ret # NoCall
    /\ call.existing = <<Message("system", <<"s">>, 2)>>
    /\ call.incoming = <<Message("user", <<" ", "s">>, 2)>>
    /\ ret.messages = call.incoming

StoredCount(row) == IF row = NoRow THEN 0 ELSE Len(row.messages)

\* C19 as stated: once a row exists, every upsert that writes it keeps its
\* created_at, whatever createdAt the payloads carry.
C19_CreatedAtImmutable ==
    [][store # NoRow => store'.created_at = store.created_at]_vars

\* A request writes while no other request has been in flight since it read.
WritesAlone(r) ==
    /\ inflight[r] # NoRequest
    /\ inflight[r].alone
    /\ inflight'[r] = NoRequest
    /\ store' = inflight[r].row

\* C20: an upsert that does not overlap another one never lowers the number
\* of messages stored; when its payload carries fewer messages than the row
\* holds, every stored message is still stored after it, at the same
\* distance from the end, with its content and timestamp.
C20_StoredMessagesNeverShrink ==
    [][\A r \in Requests :
          WritesAlone(r) =>
              /\ StoredCount(store') >= StoredCount(store)
              /\ inflight[r].shorter =>
                    \A i \in 0 .. StoredCount(store) - 1 :
                        LET old == store.messages[Len(store.messages) - i]
                            new == store'.messages[Len(store'.messages) - i]
                        IN  old.content = new.content /\ old.timestamp = new.timestamp]_vars

\* A row of at least two messages is stored and a request that read it,
\* alone, with a payload of fewer messages is about to write.
C20_Witness ==
    \E r \in Requests :
        /\ inflight[r] # NoRequest
        /\ inflight[r].alone
        /\ \A o \in Requests \ {r} : inflight[o] = NoRequest
        /\ StoredCount(store) >= 2
        /\ inflight[r].shorter
        /\ inflight[r].row.messages = store.messages

\* C24: canonicalization is idempotent: whenever canonicalize(x) is not
\* null, canonicalize(canonicalize(x)) equals canonicalize(x).
C24_CanonicalizeIdempotent ==
    (call.fn = "canonicalizeCompanyUrl" /\ ret # NoCall /\ ret.canon # NoCompany)
        => ret.again = ret.canon

\* A padded URL in upper case with a default port, two trailing slashes and
\* a query: its canonical form differs from it and is its own canonical form.
C24_Witness ==
    /\ call.fn = "canonicalizeCompanyUrl"
    /\ ret # NoCall
    /\ call.value = [kind |-> "url", pad |-> " ", scheme |-> "HTTPS",
                     host |-> "Example.com", port |-> "443", path |-> Path("a", 2),
                     query |-> "?utm=1"]
    /\ ret.canon = Url("https", "example.com", "", Path("a", 0))
    /\ ret.again = ret.canon

\* C25 as stated: canonicalize("HTTP://Example.com:443/a/") equals
\* canonicalize("http://example.com/a").
C25_Http443SameAsNoPort ==
    (/\ call.fn = "canonicalizeCompanyUrl"
     /\ ret # NoCall
     /\ call.value = Url("HTTP", "Example.com", "443", Path("a", 1)))
        => ret.canon = canonicalizeCompanyUrl(Url("http", "example.com", "", Path("a", 0)))

\* The port a URL text stands for: its own, or the default one of its scheme.
EffectivePort(u) ==
    IF u.port = "" THEN DefaultPort(toLowerCase(u.scheme)) ELSE u.port

\* C25 amended: two URLs have the same canonical form exactly when they
\* agree on scheme and host up to letter case, on the port once the default
\* port of the scheme (80 for http, 443 for https) is filled in, and on the
\* path up to trailing slashes; so "HTTPS://Example.com:443/a/" and
\* "https://example.com/a" have the same form, while port 443 of an http
\* URL is kept.
C25_CanonicalFormClasses ==
    (call.fn = "canonicalizeCompanyUrl" /\ ret # NoCall /\ call.value.kind = "url") =>
        \A y \in CompanyUrls :
            (canonicalizeCompanyUrl(y) = ret.canon) <=>
                /\ toLowerCase(y.scheme) = toLowerCase(call.value.scheme)
                /\ toLowerCase(y.host) = toLowerCase(call.value.host)
                /\ EffectivePort(y) = EffectivePort(call.value)
                /\ y.path.seg = call.value.path.seg

\* "HTTPS://Example.com:443/a/" has the canonical form "https://example.com/a".
C25_Witness ==
    /\ call.fn = "canonicalizeCompanyUrl"
    /\ ret # NoCall
    /\ call.value = Url("HTTPS", "Example.com", "443", Path("a", 1))
    /\ ret.canon = Url("https", "example.com", "", Path("a", 0))
    /\ ret.canon = canonicalizeCompanyUrl(Url("https", "example.com", "", Path("a", 0)))

IdsOf(q) == {q[i] : i \in 1 .. Len(q)}

\* C22 as stated: no results snippet handed to the prompt builder has the
\* id of the conversation being answered.
C22_ParentNotInResults ==
    (call.fn = "resolveSnippets" /\ ret # NoCall) =>
        call.conversationId \notin IdsOf(ret.snippets.results)

\* Two company texts that are the same URL up to one trailing slash.
SameUpToTrailingSlash(a, b) ==
    /\ a.kind = "url"
    /\ b.kind = "url"
    /\ a.path.slashes <= 1
    /\ b.path.slashes <= 1
    /\ [a EXCEPT !.path = Path(a.path.seg, 0)] = [b EXCEPT !.path = Path(b.path.seg, 0)]

\* C23 as stated: a results row with content whose company is the parent's
\* company up to a trailing slash is among the results.
C23_TrailingSlashSiblingIncluded ==
    (call.fn = "resolveSnippets" /\ ret # NoCall /\ ret.snippets.status = 0) =>
        \A p \in call.table, s \in call.table :
            (/\ p.id = call.conversationId
             /\ s.id # p.id
             /\ s.type = "results"
             /\ hasContent(s)
             /\ SameUpToTrailingSlash(p.company, s.company))
                => s.id \in IdsOf(ret.snippets.results)

\* The context rows of the table whose company is a URL variant of the
\* company the DELETE read.
VariantContextRows(rows) ==
    {r \in rows : /\ r.type = "context"
                  /\ \E i \in 1 .. Len(companyUrlVariants(del.companyUrl)) :
                        r.company = companyUrlVariants(del.companyUrl)[i]}

ItemsOf(value) ==
    IF value.t = "array" THEN value.items
    ELSE IF value.t = "text" /\ value.parsed.t = "array" THEN value.parsed.items
    ELSE <<>>

Accepted(m) == "role" \in DOMAIN m /\ m.role \in {"system", "user", "assistant"}

\* C26 as stated: for every value parsing and sanitizing never raises,
\* returns only messages of role system, user or assistant, keeps the
\* accepted elements in input order, and gives the empty list for malformed
\* JSON.
C26_SanitizeNeverRaises ==
    (call.fn = "parseStoredMessages" /\ ret # NoCall) =>
        LET items == ItemsOf(call.value)
            accepted == {i \in 1 .. Len(items) : Accepted(items[i])}
            roles == [i \in 1 .. Len(items) |->
                        IF i \in accepted THEN items[i].role ELSE ""]
        IN  /\ ~ret.threw
            /\ \A k \in 1 .. Len(ret.messages) :
                  ret.messages[k].role \in {"system", "user", "assistant"}
            /\ [k \in 1 .. Len(ret.messages) |-> ret.messages[k].role]
                  = RestrictFrom(roles, accepted, 1)
            /\ call.value = Malformed => ret.messages = <<>>

\* Spellings of a keyword phrase in some letter case.
LetterCases(phrase) ==
    IF phrase = "content pack" THEN {"content pack", "Content Pack", "CONTENT PACK"}
    ELSE IF phrase = "final post" THEN {"final post", "Final Post", "FINAL POST"}
    ELSE IF phrase = "variants" THEN {"variants", "Variants", "VARIANTS"}
    ELSE IF phrase = "asset brief" THEN {"asset brief", "Asset Brief", "ASSET BRIEF"}
    ELSE IF phrase = "hook" THEN {"hook", "Hook", "HOOK"}
    ELSE {"cta", "Cta", "CTA"}

\* Spellings of a keyword phrase that compatibility normalization maps to it.
CompatSpellings(phrase) ==
    IF phrase = "final post" THEN {"<U+FB01>nal post"} ELSE {}

ContainsAnyCase(content, phrase) == content.phrases \cap LetterCases(phrase) # {}

ContainsNormalized(content, phrase) ==
    content.phrases \cap (LetterCases(phrase) \cup CompatSpellings(phrase)) # {}

\* The controller is enabled exactly when some results snippet is detected.
EnabledIffSomeDetected(Detected(_)) ==
    (call.fn = "buildContentPackController" /\ ret # NoCall) =>
        (ret.controller.enabled
            <=> \E i \in 1 .. Len(call.results) : Detected(call.results[i]))

DetectedAnyCase(c) ==
    /\ (ContainsAnyCase(c, "content pack") \/ ContainsAnyCase(c, "final post"))
    /\ (ContainsAnyCase(c, "variants") \/ ContainsAnyCase(c, "asset brief"))
    /\ ContainsAnyCase(c, "hook")
    /\ ContainsAnyCase(c, "cta")

DetectedNormalized(c) ==
    /\ (ContainsNormalized(c, "content pack") \/ ContainsNormalized(c, "final post"))
    /\ (ContainsNormalized(c, "variants") \/ ContainsNormalized(c, "asset brief"))
    /\ ContainsNormalized(c, "hook")
    /\ ContainsNormalized(c, "cta")

\* C27 as stated: a snippet is detected exactly when its text contains, in
\* any letter case, (content pack or final post) and (variants or asset
\* brief) and hook and cta; the controller is enabled exactly when some
\* results snippet is detected.
C27_DetectedIffContainsAnyCase ==
    /\ (call.fn = "looksLikeContentPack" /\ ret # NoCall) =>
          (ret.detected <=> DetectedAnyCase(call.content))
    /\ EnabledIffSomeDetected(DetectedAnyCase)

\* C27 amended: a snippet is detected exactly when its text, after Unicode
\* compatibility normalization and in any letter case, contains (content
\* pack or final post) and (variants or asset brief) and hook and cta; a
\* snippet containing only hook and cta is not detected; the controller is
\* enabled exactly when some results snippet is detected.
C27_DetectedIffNormalizedContains ==
    /\ (call.fn = "looksLikeContentPack" /\ ret # NoCall) =>
          /\ ret.detected <=> DetectedNormalized(call.content)
          /\ call.content.phrases = {"Hook", "CTA"} => ~ret.detected
    /\ EnabledIffSomeDetected(DetectedNormalized)

\* A text holding FINAL POST, variants, Hook and CTA in mixed case is
\* detected.
C27_Witness ==
    /\ call.fn = "looksLikeContentPack"
    /\ ret # NoCall
    /\ call.content.phrases = {"FINAL POST", "variants", "Hook", "CTA"}
    /\ ret.detected

\* Every id-bearing fragment of the results snippets that matches, in text
\* order.
RECURSIVE MatchedIds(_, _)
MatchedIds(frags, i) ==
    IF i > Len(frags) THEN <<>>
    ELSE (IF TokenLength(frags[i].id) >= 2 THEN <<frags[i].id>> ELSE <<>>)
         \o MatchedIds(frags, i + 1)

RECURSIVE AllIds(_, _)
AllIds(results, i) ==
    IF i > Len(results) THEN <<>>
    ELSE MatchedIds(results[i].frags, 1) \o AllIds(results, i + 1)

\* The ids in order of first appearance, later spellings of an id dropped.
FirstAppearances(ids) ==
    RestrictFrom(ids,
                 {i \in 1 .. Len(ids) :
                     \A j \in 1 .. (i - 1) : toLowerCase(ids[j]) # toLowerCase(ids[i])},
                 1)

\* C28 as stated: an enabled controller's expectedIds is the ids found in
\* the results snippets in order of first appearance, case-insensitive
\* duplicates removed (idSource content_pack_id), or ROW-1..ROW-n when no id
\* is found (idSource result_row_index), and is never empty; a disabled
\* controller has empty expectedIds and idSource none.
C28_ExpectedIdsFirstAppearance ==
    (call.fn = "buildContentPackController" /\ ret # NoCall) =>
        LET c == ret.controller
            found == FirstAppearances(AllIds(call.results, 1))
        IN  /\ (c.enabled /\ found # <<>>) =>
                  (c.expectedIds = found /\ c.idSource = "content_pack_id")
            /\ (c.enabled /\ found = <<>>) =>
                  /\ c.expectedIds = [i \in 1 .. Len(call.results) |-> RowId(i)]
                  /\ c.idSource = "result_row_index"
            /\ c.enabled => c.expectedIds # <<>>
            /\ ~c.enabled => (c.expectedIds = <<>> /\ c.idSource = "none")

\* The reply has the line.
HasLine(r, line) == \E i \in 1 .. Len(r) : r[i] = line

\* The error text matches the credit-balance-too-low pattern.
MatchesLowCredit(e) ==
    e \in {"credit balance is too low", "Credit Balance Is Too Low"}

\* C29: for every provider error and every set of loaded snippets the
\* fallback reply holds the model-unreachable disclaimer and the title of
\* every loaded results and context snippet that has one; it holds the
\* credits-exhausted note and the add-credits call to action exactly when the
\* error text matches the credit-balance-too-low pattern.
C29_FallbackReplyContents ==
    (call.fn = "buildFallbackReply" /\ ret # NoCall) =>
        LET r == ret.reply
            snippets == call.args.results \o call.args.contexts
            matches == MatchesLowCredit(call.args.providerError)
        IN  /\ HasLine(r, Line("text", "I could not reach the configured language model, so this is a fallback response from stored data."))
            /\ \A j \in 1 .. Len(snippets) :
                  StrTrim(snippets[j].title) # <<>> =>
                      HasLine(r, DataLine("heading", j, StrTrim(snippets[j].title)))
            /\ HasLine(r, Line("text", "Anthropic API credits are currently exhausted."))
                  <=> matches
            /\ HasLine(r, Line("text", "Add Anthropic credits and retry to restore full AI responses."))
                  <=> matches

\* A low-credit error in capitals with a titled results snippet and a titled
\* context snippet: the reply holds both titles and both credit lines.
C29_Witness ==
    /\ call.fn = "buildFallbackReply"
    /\ ret # NoCall
    /\ call.args.providerError = "Credit Balance Is Too Low"
    /\ call.args.results = <<Snippet(<<"T">>, <<"c", " ", "\n", "d">>)>>
    /\ call.args.contexts = <<Snippet(<<" ", "U", "\n">>, <<"c", " ", "\n", "d">>)>>
    /\ HasLine(ret.reply, DataLine("heading", 1, <<"T">>))
    /\ HasLine(ret.reply, DataLine("heading", 2, <<"U">>))
    /\ HasLine(ret.reply, DataLine("snippet", 2, <<"c", " ", "d">>))
    /\ HasLine(ret.reply, Line("text", "Anthropic API credits are currently exhausted."))

\* The blocks of a body that parses, and the text they hold together.
BlocksOf(body) ==
    IF body.t = "object" /\ "content" \in DOMAIN body /\ body.content.t = "array"
    THEN body.content.items ELSE <<>>

RECURSIVE TextOfBlocks(_, _)
TextOfBlocks(blocks, i) ==
    IF i > Len(blocks) THEN <<>>
    ELSE (IF "type" \in DOMAIN blocks[i] /\ blocks[i].type = "text"
             /\ "text" \in DOMAIN blocks[i]
          THEN blocks[i].text ELSE <<>>)
         \o TextOfBlocks(blocks, i + 1)

\* Every text block of the body has a text that can be made a string.
Extractable(body) ==
    \A i \in 1 .. Len(BlocksOf(body)) :
        "textKind" \in DOMAIN BlocksOf(body)[i] =>
            BlocksOf(body)[i].textKind # "unprintable"

Is2xx(status) == status \in 200 .. 299

\* C30: a model invocation returns Ok(text) only when the response is 2xx,
\* its body parses as JSON and the concatenated text blocks are not empty
\* after trimming; a timeout, a non-2xx response, malformed JSON in a 2xx
\* response and an empty extracted text each give a provider-error value,
\* the timeout one naming the timeout, and never an exception.
C30_InvocationOutcomes ==
    (call.fn = "callAnthropic" /\ ret # NoCall) =>
        LET f == call.fetched
            out == ret.out
            isError == ~out.threw /\ ~out.result.ok
        IN  /\ (~out.threw /\ out.result.ok) =>
                  /\ f.kind = "response"
                  /\ Is2xx(f.status)
                  /\ f.body.t # "malformed"
                  /\ StrTrim(TextOfBlocks(BlocksOf(f.body), 1)) # <<>>
                  /\ out.result.reply = StrTrim(TextOfBlocks(BlocksOf(f.body), 1))
            /\ f.kind = "abort" =>
                  /\ isError
                  /\ out.result.kind = "Anthropic request timed out after"
                  /\ out.result.detail = [ms |-> call.timeoutMs]
            /\ (f.kind = "response" /\ ~Is2xx(f.status)) =>
                  (isError /\ out.result.detail = f.body)
            /\ (f.kind = "response" /\ Is2xx(f.status) /\ f.body.t = "malformed") =>
                  (isError /\ out.result.kind = "Invalid provider JSON response:")
            /\ (f.kind = "response" /\ Is2xx(f.status) /\ f.body.t # "malformed"
                   /\ Extractable(f.body)
                   /\ StrTrim(TextOfBlocks(BlocksOf(f.body), 1)) = <<>>) =>
                  (isError /\ out.result.kind = "Empty model response")

\* A 2xx response whose only text block is blank gives the empty-response
\* provider error.
C30_Witness ==
    /\ call.fn = "callAnthropic"
    /\ ret # NoCall
    /\ call.fetched = ResponseOf(200, BodyWith(JsonArray(<<TextBlock(<<" ">>), ToolBlock>>)))
    /\ ~ret.out.threw
    /\ ret.out.result = ProviderError("Empty model response", NoDetail)

\* The request has issued the call.
Issued(name) == \E i \in 1 .. Len(chat.log) : chat.log[i] = <<name, "issued">>

\* C31 as stated: when the model API key is missing the request fails before
\* any network call is issued and the response is a 400-class error.
C31_MissingKeyFailsFast ==
    (chat.pc = "answered" /\ ~chat.hasKey) =>
        (chat.log = <<>> /\ chat.status \in 400 .. 499)

\* Position of an entry of chat.log, 0 when the log does not hold it.
Pos(name, what) ==
    IF \E i \in 1 .. Len(chat.log) : chat.log[i] = <<name, what>>
    THEN CHOOSE i \in 1 .. Len(chat.log) : chat.log[i] = <<name, what>>
    ELSE 0

\* Both entries are in the log, the first before the second.
Before(a, b) == Pos(a[1], a[2]) > 0 /\ Pos(a[1], a[2]) < Pos(b[1], b[2])

\* No sibling read, listing read or model call is issued before the parent
\* read has returned a row, and a parent read without row ends the request
\* with 404 and nothing else read or called.
ParentReadFirst ==
    /\ \A n \in {"results", "context", "listing", "model"} :
          Issued(n) => (Before(<<"parent", "returned">>, <<n, "issued">>)
                        /\ chat.parent \in {"company", "title", "bare"})
    /\ chat.parent = "none" =>
          /\ chat.pc = "answered"
          /\ chat.status = 404
          /\ chat.log = << <<"parent", "issued">>, <<"parent", "returned">> >>

\* Both sibling reads are issued after the parent read and have returned
\* before the model call is issued.
SiblingsJoinedBeforeModel ==
    \A n \in {"results", "context"} :
        /\ Before(<<"parent", "returned">>, <<n, "issued">>)
        /\ Before(<<n, "returned">>, <<"model", "issued">>)

\* C34 as stated: nothing is read or called before the parent read has
\* returned a row, a parent read without row ends the request with 404, and
\* otherwise the results read and the context read are both issued after the
\* parent read and both complete before the model is called.
C34_SiblingReadsAlwaysIssued ==
    /\ ParentReadFirst
    /\ Issued("model") => SiblingsJoinedBeforeModel

\* C34 amended: as stated when the parent row has a company URL or a title;
\* a parent row with neither has no sibling read issued, and the model is
\* called with no sibling row.
C34_SiblingReadsWhenScoped ==
    /\ ParentReadFirst
    /\ (Issued("model") /\ chat.parent \in {"company", "title"}) =>
          SiblingsJoinedBeforeModel
    /\ chat.parent = "bare" => (~Issued("results") /\ ~Issued("context"))

\* The context read returned before the results read, and the model was
\* called after both.
C34_Witness ==
    /\ Issued("model")
    /\ Before(<<"context", "returned">>, <<"results", "returned">>)
    /\ Before(<<"results", "returned">>, <<"model", "issued">>)

\* Request r writes the row it built.
Writes(r) ==
    /\ inflight[r] # NoRequest
    /\ inflight'[r] = NoRequest
    /\ store' = inflight[r].row

\* C36: the completeness guard is no lock.  A write lowers the number of
\* stored messages only when the request that makes it overlapped another
\* request between its read and its write; the write of a request that did
\* not overlap another one never lowers it.
C36_ShrinkOnlyWhenInterleaved ==
    [][\A r \in Requests :
          Writes(r) =>
              /\ StoredCount(store') < StoredCount(store) => ~inflight[r].alone
              /\ inflight[r].alone => StoredCount(store') >= StoredCount(store)]_vars

\* Both requests read before either wrote, one has written, and the write
\* of the other is about to replace the stored history with a shorter one.
C36_Witness ==
    \E r \in Requests :
        /\ inflight[r] # NoRequest
        /\ ~inflight[r].alone
        /\ \A o \in Requests \ {r} : inflight[o] = NoRequest
        /\ store # NoRow
        /\ StoredCount(inflight[r].row) < StoredCount(store)

\* The content the claim derives for a row: the context field when it is
\* not empty, the social_entry field otherwise.
DerivedContent(r) ==
    IF r.context # None /\ r.context[1] # <<>> THEN r.context[1]
    ELSE IF r.social_entry # None THEN r.social_entry[1]
    ELSE <<>>

\* C35 as stated: the snippet content of a sibling row is its context field
\* when that field is not empty and its social_entry field otherwise, and a
\* row is left out exactly when that content is empty after trimming.
C35_ContentIsContextElseSocialEntry ==
    (call.fn = "toSnippets" /\ ret # NoCall) =>
        \A i \in 1 .. Len(call.rows) :
            LET r == call.rows[i]
                kept == \E k \in 1 .. Len(ret.snippets) : ret.snippets[k].id = r.id
            IN  /\ kept <=> StrTrim(DerivedContent(r)) # <<>>
                /\ \A k \in 1 .. Len(ret.snippets) :
                      ret.snippets[k].id = r.id =>
                          ret.snippets[k].content = StrTrim(DerivedContent(r))

\* No two adjacent turns of the list have the same role.
Alternates(turns) ==
    \A i \in 1 .. Len(turns) - 1 : turns[i].role # turns[i + 1].role

\* C37 as stated: the message list of the initial call and that of every
\* repair pass hold no two adjacent turns of the same role.
C37_NoAdjacentSameRole ==
    (call.fn = "convoMessages" /\ ret # NoCall /\ ret.hasUser) =>
        (Alternates(ret.first) /\ Alternates(ret.repair))

\* The ids of a list, as a set.
IdSet(ids) == {ids[i] : i \in 1 .. Len(ids)}

\* C38: in every step of one request an id that has a collected block keeps
\* one, the block stored for an id changes only to a strictly longer block,
\* and once the first completion is parsed missingIds never gains an id.
C38_CoverageOnlyGrows ==
    [][ /\ DOMAIN blocksById \subseteq DOMAIN blocksById'
        /\ \A id \in DOMAIN blocksById :
              blocksById'[id] # blocksById[id] =>
                  TextLength(blocksById'[id]) > TextLength(blocksById[id])
        /\ pc = "repairCall" =>
              IdSet(coverage'.missingIds) \subseteq IdSet(coverage.missingIds)
      ]_vars

\* A repair pass has added a block: after the first completion left an id
\* missing, a productive pass completed the coverage.
C38_Witness ==
    /\ pc = "done"
    /\ firstCall = "ok"
    /\ \E i \in 1 .. Len(passLog) : passLog[i] = "productive"
    /\ coverage.missingIds = <<>>
    /\ Cardinality(DOMAIN blocksById) = 2

\* ceil(m / batchSize), for a positive batch size.
PassesNeeded == (call.m + batchSize - 1) \div batchSize

\* A request answered after repair calls that all succeeded with a block for
\* each id they targeted, under a positive batch size.
IdealRepair ==
    /\ call.fn = "repairLoop"
    /\ Responded
    /\ call.covered
    /\ batchSize > 0

\* C39 as stated: when every repair call succeeded with a block for each id
\* it targeted, the loop ends with nothing missing after exactly
\* ceil(m / batchSize) passes if that is at most maxPasses, and with ids
\* still missing otherwise.
C39_IdealRepairPassCount ==
    IdealRepair =>
        IF PassesNeeded <= maxPasses
        THEN coverage.missingIds = <<>> /\ repairPasses = PassesNeeded
        ELSE StillMissing

\* C39 amended: the count is exact when, in addition, no repair reply held a
\* block for a missing id the pass did not target; without that the loop
\* ends with nothing missing after at most ceil(m / batchSize) passes when
\* that number is within maxPasses.
C39_IdealRepairPassCountExact ==
    IdealRepair =>
        /\ call.exact =>
              IF PassesNeeded <= maxPasses
              THEN coverage.missingIds = <<>> /\ repairPasses = PassesNeeded
              ELSE StillMissing
        /\ PassesNeeded <= maxPasses =>
              coverage.missingIds = <<>> /\ repairPasses <= PassesNeeded

\* Two ids were missing, the passes targeted one id each and each reply held
\* the targeted block only: the loop ended after two passes.
C39_Witness ==
    /\ call.fn = "repairLoop"
    /\ Responded
    /\ call.covered
    /\ call.exact
    /\ call.m = 2
    /\ batchSize = 1
    /\ repairPasses = 2
    /\ coverage.missingIds = <<>>

\* The messages of a stored row, as the listing reads them for its keys.
MessagesIn(r) == Len(parseStoredMessages(r.messages, r.created_at))

\* Row x is greater than row y under the order of the listing: more
\* messages, then a resolvable company URL, then the later creation.
GreaterRow(x, y) ==
    LET xCompany == companyOfRow(x) # NoCompany
        yCompany == companyOfRow(y) # NoCompany
    IN  \/ MessagesIn(x) > MessagesIn(y)
        \/ MessagesIn(x) = MessagesIn(y) /\ xCompany /\ ~yCompany
        \/ MessagesIn(x) = MessagesIn(y) /\ xCompany = yCompany
              /\ x.created_at > y.created_at

\* C33 as stated: the listing holds one entry per group key, every row read
\* is in exactly one group, the group of its key, and the entry of a group
\* is a row of the group that no row of the group is greater than.
C33_ListingGroupsAndPrimary ==
    (call.fn = "GET" /\ ret # NoCall) =>
        LET rows == call.rows
            entries == ret.conversations
            InGroup(r, e) == \E i \in 1 .. Len(e.group) : e.group[i].id = r.id
        IN  /\ \A a, b \in 1 .. Len(entries) :
                  entries[a].key = entries[b].key => a = b
            /\ \A i \in 1 .. Len(rows) :
                  /\ Cardinality({e \in 1 .. Len(entries) : InGroup(rows[i], entries[e])}) = 1
                  /\ \A e \in 1 .. Len(entries) :
                        InGroup(rows[i], entries[e]) <=>
                            entries[e].key = companyKeyForRow(rows[i])
            /\ \A e \in 1 .. Len(entries) :
                  /\ InGroup(entries[e].primary, entries[e])
                  /\ \A i \in 1 .. Len(entries[e].group) :
                        ~GreaterRow(entries[e].group[i], entries[e].primary)

\* The store read of the chat request that failed, if one did.
FailedStoreRead ==
    /\ chat.pc = "answered"
    /\ Len(chat.log) > 0
    /\ chat.log[Len(chat.log)][2] = "failed"
    /\ chat.log[Len(chat.log)][1] \in {"parent", "results", "context", "listing"}

\* C32: one send issues at most two chat calls, the second after the delay
\* and only when the first was answered 404 after a save that was ok; a
\* first answer that is no 404, a second answer and a failed save are
\* followed by no further call; a store read that fails inside the chat
\* request is answered with status 500.
C32_RetryOnlyOn404AfterSave ==
    client.pc # "idle" =>
        /\ client.chatCalls <= 2
        /\ client.saves <= 2
        /\ client.chatCalls = 2 =>
              /\ client.statuses[1] = 404
              /\ client.saved = "ok"
              /\ client.delayed
        /\ (Len(client.statuses) >= 1 /\ client.statuses[1] # 404) =>
              client.chatCalls = 1
        /\ client.saved = "failed" => (client.chatCalls = 0 /\ client.saves = 1)
        /\ (client.saves = 2) => client.assistantAdded
        /\ FailedStoreRead => chat.status = 500

\* The first chat call was answered 404 and the send ended after the answer
\* of its second call.
C32_Witness ==
    /\ client.pc = "done"
    /\ client.chatCalls = 2
    /\ Len(client.statuses) = 2
    /\ client.statuses[1] = 404

\* C40: a chat call is issued only after the save answered ok; a failed save
\* leaves no chat call and no assistant message; a send that has ended has
\* reset the loading flag, and a loading flag that is set is eventually
\* reset.
C40_SaveGatesChatAndLoadingResets ==
    /\ [](client.pc # "idle" =>
            /\ (client.chatCalls > 0 \/ chat # NoRequest) => client.saved = "ok"
            /\ client.saved = "failed" =>
                  (client.chatCalls = 0 /\ ~client.assistantAdded /\ chat = NoRequest)
            /\ client.pc = "done" => ~client.loading)
    /\ [](client.pc # "idle" => (client.loading ~> ~client.loading))

\* The save before the chat call failed: the send has ended without a chat
\* call and the loading flag is reset.
C40_Witness ==
    /\ client.pc = "done"
    /\ client.outcome = "saveFailed"
    /\ ~client.loading
    /\ client.chatCalls = 0

====
